---------------------------- MODULE Spec2Model ----------------------------
(***************************************************************************)
(* The two native launchers of the "bookmarks" application:                *)
(*   build-scripts/win/bin/bookmarks.cpp  (Windows)                        *)
(*   build-scripts/osx/bin.cpp            (macOS)                          *)
(* Wide strings are sequences of UTF-16 code units, narrow strings are     *)
(* sequences of bytes.  The process environment is a function from         *)
(* variable names to values, the file system a function from the paths of  *)
(* the existing entries to their kind.                                     *)
(***************************************************************************)
EXTENDS Integers, Sequences, FiniteSets, TLC

(***************************************************************************)
(* String literals of the sources, as code units.                          *)
(***************************************************************************)
(* L"\\bin" *)
L_bin == <<92, 98, 105, 110>>
(* L";" *)
L_semicolon == <<59>>
(* L"PATH" *)
L_PATH == <<80, 65, 84, 72>>
(* L"PYTHONPATH" *)
L_PYTHONPATH == <<80, 89, 84, 72, 79, 78, 80, 65, 84, 72>>
(* L"\\python27.dll" *)
L_python27dll == <<92, 112, 121, 116, 104, 111, 110, 50, 55, 46, 100, 108, 108>>
(* L"\\shared" *)
L_shared == <<92, 115, 104, 97, 114, 101, 100>>
(* L"import os;import sys;os.environ['PATH'] = r'" *)
L_cmd_head == <<105, 109, 112, 111, 114, 116, 32, 111, 115, 59, 105, 109, 112, 111, 114, 116, 32, 115, 121, 115, 59, 111, 115, 46, 101, 110, 118, 105, 114, 111, 110, 91, 39, 80, 65, 84, 72, 39, 93, 32, 61, 32, 114, 39>>
(* L"';sys.path.insert(0, r'" *)
L_cmd_mid == <<39, 59, 115, 121, 115, 46, 112, 97, 116, 104, 46, 105, 110, 115, 101, 114, 116, 40, 48, 44, 32, 114, 39>>
(* L"';import bookmarks; bookmarks.exec_();" *)
L_cmd_tail == <<39, 59, 105, 109, 112, 111, 114, 116, 32, 98, 111, 111, 107, 109, 97, 114, 107, 115, 59, 32, 98, 111, 111, 107, 109, 97, 114, 107, 115, 46, 101, 120, 101, 99, 95, 40, 41, 59>>
(* "import bookmarks; bookmarks.exec_(); exit(0);" *)
osx_cmd == <<105, 109, 112, 111, 114, 116, 32, 98, 111, 111, 107, 109, 97, 114, 107, 115, 59, 32, 98, 111, 111, 107, 109, 97, 114, 107, 115, 46, 101, 120, 101, 99, 95, 40, 41, 59, 32, 101, 120, 105, 116, 40, 48, 41, 59>>
(* the statement "exit(0);" of the macOS command string *)
S_exit0 == <<101, 120, 105, 116, 40, 48, 41, 59>>

(***************************************************************************)
(* Inputs of a run: where the executable lives and what PATH holds.        *)
(***************************************************************************)
(* C:\a\b.exe *)
Exe1 == <<67, 58, 92, 97, 92, 98, 46, 101, 120, 101>>
(* D:\<e-acute>\b.exe : a directory name outside ASCII *)
Exe2 == <<68, 58, 92, 233, 92, 98, 46, 101, 120, 101>>
(* C:\W *)
Path1 == <<67, 58, 92, 87>>
(* E:\u;F: *)
Path2 == <<69, 58, 92, 117, 59, 70, 58>>

ModuleFileNames == {Exe1, Exe2}
PathValues == {Path1, Path2}
\* exit statuses an application can pass to sys.exit(), capped
MaxExitCode == 2

(***************************************************************************)
(* Helpers on strings.                                                     *)
(***************************************************************************)
RECURSIVE LastIndexOf(_, _, _)
LastIndexOf(s, c, i) ==
    IF i = 0 THEN 0
    ELSE IF s[i] = c THEN i
    ELSE LastIndexOf(s, c, i - 1)

\* shlwapi PathRemoveFileSpecW: drops the trailing file name and the
\* backslash before it
RemoveFileSpec(p) ==
    LET i == LastIndexOf(p, 92, Len(p))
    IN  IF i = 0 THEN p ELSE SubSeq(p, 1, i - 1)

EndsWith(s, t) ==
    /\ Len(t) <= Len(s)
    /\ SubSeq(s, Len(s) - Len(t) + 1, Len(s)) = t

\* UTF-8 bytes of one UTF-16 code unit of the basic plane
Utf8Unit(c) ==
    IF c < 128 THEN <<c>>
    ELSE IF c < 2048 THEN <<192 + (c \div 64), 128 + (c % 64)>>
    ELSE <<224 + (c \div 4096), 128 + ((c \div 64) % 64), 128 + (c % 64)>>

\* UTF-8 bytes of a wide string: the encodings of its units, in order
RECURSIVE Utf8(_)
Utf8(w) ==
    IF Len(w) = 0 THEN <<>>
    ELSE IF Len(w) = 1 THEN Utf8Unit(w[1])
    ELSE LET h == Len(w) \div 2
         IN  Utf8(SubSeq(w, 1, h)) \o Utf8(SubSeq(w, h + 1, Len(w)))

\* the characters of a NUL-terminated buffer up to the first NUL
CStr(buf) ==
    LET nuls == { i \in 1..Len(buf) : buf[i] = 0 }
    IN  IF nuls = {} THEN buf
        ELSE SubSeq(buf, 1, (CHOOSE i \in nuls : \A j \in nuls : i <= j) - 1)

(***************************************************************************)
(* WstrToUtf8Str.  sizeOk and convOk are the outcomes of the two           *)
(* WideCharToMultiByte calls (a failed call returns 0).                    *)
(***************************************************************************)
WstrToUtf8Str(wstr, sizeOk, convOk) ==
    IF wstr = <<>> THEN [threw |-> FALSE, retStr |-> <<>>]
    ELSE
      LET sizeRequired == IF sizeOk THEN Len(Utf8(CStr(wstr))) + 1 ELSE 0
      IN  IF sizeRequired > 0
          THEN LET utf8String == Utf8(CStr(wstr)) \o <<0>>
                   bytesConverted == IF convOk THEN Len(utf8String) ELSE 0
               IN  IF bytesConverted # 0
                   THEN [threw |-> FALSE, retStr |-> CStr(utf8String)]
                   ELSE [threw |-> TRUE, retStr |-> <<>>]
          ELSE [threw |-> FALSE, retStr |-> <<>>]

(***************************************************************************)
(* C runtime: environment and file system.                                 *)
(***************************************************************************)
\* _wstat: 0 when the entry exists, -1 otherwise
wstat(fsys, name) == IF name \in DOMAIN fsys THEN 0 ELSE -1

\* the st_mode the call stores for an existing entry
st_mode(fsys, name) == fsys[name]

\* variant: tests that st_mode is not zero instead of the directory flag
S_IFDIR_nonzero(mode) == mode # "none"

\* info.st_mode & S_IFDIR
S_IFDIR(mode) == mode = "dir"

\* variant: an unset variable is reported like an empty one (size 1)
wgetenv_size_unsetAsEmpty(e, name) ==
    IF name \in DOMAIN e THEN Len(e[name]) + 1 ELSE 1

\* _wgetenv_s(&envsize, NULL, 0, name): the size of the value with its
\* terminator, 0 when the variable is not set
wgetenv_size(e, name) == IF name \in DOMAIN e THEN Len(e[name]) + 1 ELSE 0

\* _wputenv_s(varname, value_string): defines varname, or removes it when
\* the value is empty
wputenv_s(e, varname, value_string) ==
    IF value_string = <<>>
    THEN [n \in (DOMAIN e) \ {varname} |-> e[n]]
    ELSE [n \in (DOMAIN e) \cup {varname} |->
            IF n = varname THEN value_string ELSE e[n]]

(***************************************************************************)
(* State.                                                                  *)
(***************************************************************************)
VARIABLES
    platform,       \* "win" or "osx": which launcher runs
    exe,            \* full path of the executable (an input)
    fs,             \* file system: path |-> "dir" | "file"
    env0,           \* the environment at start
    env,            \* the process environment
    pc,             \* position in main
    path,           \* wchar_t path[MAX_PATH + 1]
    bin_dir,
    info,           \* st_mode of the global struct info
    envsize,
    pathvar,        \* wchar_t* pathvar: where it points and what the buffer holds
    modified_path,
    pythonpath,
    interp,         \* "none" | "initialized" | "finalized"
    cmd,            \* the narrow command string
    res,            \* result of PyRun_SimpleString
    passed,         \* the strings handed to the interpreter
    dialogs,        \* the alerts shown, in order
    term,           \* "running" | "exit" | "abort"
    exitCode,       \* the status passed to exit, -1 while there is none
    calls,          \* the external calls made, in order
    sbk_T,          \* the type T of the last SbkType<T>() call, "none" before
    sbk_index,      \* the index at which that call read SbkPySide2_QtGuiTypes
    cvt_name,       \* the converter index macro last used, "none" before
    cvt_index       \* the index at which SbkPySide2_QtGuiTypeConverters was read

inputs == <<platform, exe, fs, env0>>
locals == <<path, bin_dir, info, envsize, pathvar, modified_path, pythonpath>>
pyvars == <<interp, cmd, res, passed>>
outvars == <<dialogs, term, exitCode>>
sbk == <<sbk_T, sbk_index, cvt_name, cvt_index>>
launcher == <<inputs, env, pc, locals, pyvars, outvars, calls>>
vars == <<launcher, sbk>>

\* the directory entries next to the executable
FileSystems(x) ==
    LET dir == RemoveFileSpec(x)
        bin == dir \o L_bin
        dll == dir \o L_python27dll
    IN  { [n \in (IF b = "missing" THEN {} ELSE {bin})
                 \cup (IF d THEN {dll} ELSE {}) |->
             IF n = bin THEN b ELSE "file"] :
          b \in {"missing", "file", "dir"}, d \in BOOLEAN }

Environments ==
    { [n \in {} |-> <<>>] } \cup { [n \in {L_PATH} |-> v] : v \in PathValues }

Init ==
    /\ platform \in {"win", "osx"}
    /\ exe \in ModuleFileNames
    /\ fs \in FileSystems(exe)
    /\ env0 \in Environments
    /\ env = env0
    /\ pc = IF platform = "win" THEN "GetModuleFileNameW" ELSE "Py_SetProgramName"
    /\ path = <<>>
    /\ bin_dir = <<>>
    /\ info = "none"
    /\ envsize = 0
    /\ pathvar = [ptr |-> "uninit", buf |-> <<>>]
    /\ modified_path = <<>>
    /\ pythonpath = <<>>
    /\ interp = "none"
    /\ cmd = <<>>
    /\ res = 0
    /\ passed = <<>>
    /\ dialogs = <<>>
    /\ term = "running"
    /\ exitCode = -1
    /\ calls = <<>>
    /\ sbk_T = "none" /\ sbk_index = -1
    /\ cvt_name = "none" /\ cvt_index = -1

\* a call that returns and lets main go on
Continue(call, next) ==
    /\ calls' = Append(calls, call)
    /\ pc' = next
    /\ UNCHANGED outvars

(***************************************************************************)
(* Windows launcher, main: the set-up checks.                              *)
(***************************************************************************)
\* if (!GetModuleFileNameW(NULL, path, MAX_PATH)) { MessageBox; exit(1); }
win_GetModuleFileNameW ==
    /\ platform = "win" /\ pc = "GetModuleFileNameW"
    /\ \E ok \in BOOLEAN :
         IF ok
         THEN /\ path' = exe
              /\ Continue("GetModuleFileNameW", "PathRemoveFileSpecW")
              /\ UNCHANGED <<bin_dir, info, envsize, pathvar, modified_path, pythonpath>>
         ELSE /\ dialogs' = Append(dialogs, "GetModuleFileNameW returned a bogus value.")
              /\ calls' = calls \o <<"GetModuleFileNameW", "MessageBox", "exit">>
              /\ term' = "exit" /\ exitCode' = 1 /\ pc' = "done"
              /\ UNCHANGED locals
    /\ UNCHANGED <<sbk, inputs, env, pyvars>>

\* variant: the result of PathRemoveFileSpecW is not tested
win_PathRemoveFileSpecW_unchecked ==
    /\ platform = "win" /\ pc = "PathRemoveFileSpecW"
    /\ \E ok \in BOOLEAN :
         path' = IF ok THEN RemoveFileSpec(path) ELSE path
    /\ Continue("PathRemoveFileSpecW", "wstat_bin")
    /\ UNCHANGED <<bin_dir, info, envsize, pathvar, modified_path, pythonpath>>
    /\ UNCHANGED <<sbk, inputs, env, pyvars>>

\* if (!PathRemoveFileSpecW(path)) { MessageBox; exit(1); }
win_PathRemoveFileSpecW ==
    /\ platform = "win" /\ pc = "PathRemoveFileSpecW"
    /\ \E ok \in BOOLEAN :
         IF ok /\ RemoveFileSpec(path) # path
         THEN /\ path' = RemoveFileSpec(path)
              /\ Continue("PathRemoveFileSpecW", "wstat_bin")
              /\ UNCHANGED <<bin_dir, info, envsize, pathvar, modified_path, pythonpath>>
         ELSE /\ dialogs' = Append(dialogs, "PathRemoveFileSpecW returned a bogus value.")
              /\ calls' = calls \o <<"PathRemoveFileSpecW", "MessageBox", "exit">>
              /\ term' = "exit" /\ exitCode' = 1 /\ pc' = "done"
              /\ UNCHANGED locals
    /\ UNCHANGED <<sbk, inputs, env, pyvars>>

\* variant: the test looks at path (the executable's directory, which
\* exists) instead of bin_dir
win_wstat_bin_statsPath ==
    /\ platform = "win" /\ pc = "wstat_bin"
    /\ bin_dir' = path \o L_bin
    /\ info' = "dir"
    /\ Continue("_wstat", "S_IFDIR")
    /\ UNCHANGED <<sbk, inputs, env, pyvars, path, envsize, pathvar, modified_path, pythonpath>>

\* variant: the alert of a missing bin is not followed by exit(1)
win_wstat_bin_noExit ==
    /\ platform = "win" /\ pc = "wstat_bin"
    /\ bin_dir' = path \o L_bin
    /\ IF wstat(fs, bin_dir') # 0
       THEN /\ dialogs' = Append(dialogs, "The 'bin' directory seems to be missing.")
            /\ calls' = calls \o <<"_wstat", "MessageBox">>
            /\ pc' = "S_IFDIR"
            /\ UNCHANGED <<info, term, exitCode>>
       ELSE /\ info' = st_mode(fs, bin_dir')
            /\ Continue("_wstat", "S_IFDIR")
    /\ UNCHANGED <<sbk, inputs, env, pyvars, path, envsize, pathvar, modified_path, pythonpath>>

\* bin_dir = path + L"\\bin"; if (_wstat(bin_dir, &info) != 0) { MessageBox; exit(1); }
win_wstat_bin ==
    /\ platform = "win" /\ pc = "wstat_bin"
    /\ bin_dir' = path \o L_bin
    /\ IF wstat(fs, bin_dir') # 0
       THEN /\ dialogs' = Append(dialogs, "The 'bin' directory seems to be missing.")
            /\ calls' = calls \o <<"_wstat", "MessageBox", "exit">>
            /\ term' = "exit" /\ exitCode' = 1 /\ pc' = "done"
            /\ UNCHANGED info
       ELSE /\ info' = st_mode(fs, bin_dir')
            /\ Continue("_wstat", "S_IFDIR")
    /\ UNCHANGED <<sbk, inputs, env, pyvars, path, envsize, pathvar, modified_path, pythonpath>>

\* variant: instead of giving up, main reads the mode again and again until
\* bin is a directory
win_S_IFDIR_waits ==
    /\ platform = "win" /\ pc = "S_IFDIR"
    /\ IF ~S_IFDIR(info)
       THEN /\ info' = IF info = "none" THEN st_mode(fs, bin_dir) ELSE "none"
            /\ pc' = "S_IFDIR"
       ELSE /\ pc' = "wgetenv_size"
            /\ UNCHANGED info
    /\ UNCHANGED <<calls, outvars>>
    /\ UNCHANGED <<sbk, inputs, env, pyvars, path, bin_dir, envsize, pathvar, modified_path, pythonpath>>

\* if (!(info.st_mode & S_IFDIR)) { MessageBox; exit(1); }
win_S_IFDIR ==
    /\ platform = "win" /\ pc = "S_IFDIR"
    /\ IF ~S_IFDIR(info)
       THEN /\ dialogs' = Append(dialogs, "The 'bin' is not a valid directory.")
            /\ calls' = calls \o <<"MessageBox", "exit">>
            /\ term' = "exit" /\ exitCode' = 1 /\ pc' = "done"
       ELSE /\ pc' = "wgetenv_size"
            /\ UNCHANGED <<calls, outvars>>
    /\ UNCHANGED <<sbk, inputs, env, pyvars, locals>>

\* _wgetenv_s(&envsize, NULL, 0, "PATH"); if (envsize == 0) { MessageBox; exit(1); }
win_wgetenv_size ==
    /\ platform = "win" /\ pc = "wgetenv_size"
    /\ envsize' = wgetenv_size(env, L_PATH)
    /\ IF envsize' = 0
       THEN /\ dialogs' = Append(dialogs, "Could not get the PATH environment.")
            /\ calls' = calls \o <<"_wgetenv_s", "MessageBox", "exit">>
            /\ term' = "exit" /\ exitCode' = 1 /\ pc' = "done"
       ELSE Continue("_wgetenv_s", "malloc")
    /\ UNCHANGED <<sbk, inputs, env, pyvars, path, bin_dir, info, pathvar, modified_path, pythonpath>>

\* variant: the result of malloc is not tested
win_malloc_unchecked ==
    /\ platform = "win" /\ pc = "malloc"
    /\ \E ok \in BOOLEAN :
         pathvar' = [ptr |-> IF ok THEN "heap" ELSE "NULL", buf |-> <<>>]
    /\ Continue("malloc", "wputenv_PATH")
    /\ UNCHANGED <<sbk, inputs, env, pyvars, path, bin_dir, info, envsize, modified_path, pythonpath>>

\* variant: a failed allocation is tried once more
win_malloc_retry ==
    /\ platform = "win" /\ pc = "malloc"
    /\ \E ok \in BOOLEAN :
         /\ pathvar' = [ptr |-> IF ok THEN "heap" ELSE "NULL", buf |-> <<>>]
         /\ IF pathvar'.ptr = "NULL" /\ pathvar.ptr = "NULL"
            THEN /\ dialogs' = Append(dialogs, "Could not allocate memory.")
                 /\ calls' = calls \o <<"malloc", "MessageBox", "exit">>
                 /\ term' = "exit" /\ exitCode' = 1 /\ pc' = "done"
            ELSE Continue("malloc", IF ok THEN "wputenv_PATH" ELSE "malloc")
    /\ UNCHANGED <<sbk, inputs, env, pyvars, path, bin_dir, info, envsize, modified_path, pythonpath>>

\* pathvar = malloc(envsize * sizeof(wchar_t)); if (!pathvar) { MessageBox; exit(1); }
win_malloc ==
    /\ platform = "win" /\ pc = "malloc"
    /\ \E ok \in BOOLEAN :
         /\ pathvar' = [ptr |-> IF ok THEN "heap" ELSE "NULL", buf |-> <<>>]
         /\ IF pathvar'.ptr = "NULL"
            THEN /\ dialogs' = Append(dialogs, "Could not allocate memory.")
                 /\ calls' = calls \o <<"malloc", "MessageBox", "exit">>
                 /\ term' = "exit" /\ exitCode' = 1 /\ pc' = "done"
            ELSE Continue("malloc", "wputenv_PATH")
    /\ UNCHANGED <<sbk, inputs, env, pyvars, path, bin_dir, info, envsize, modified_path, pythonpath>>

\* _wgetenv_s(&envsize, pathvar, envsize, "PATH");
\* modified_path = bin_dir + L";" + pathvar;
\* _wputenv_s(modified_path.c_str(), L"PATH");
win_wputenv_PATH ==
    /\ platform = "win" /\ pc = "wputenv_PATH"
    /\ pathvar' = [pathvar EXCEPT !.buf = env[L_PATH]]
    /\ modified_path' = bin_dir \o L_semicolon \o pathvar'.buf
    /\ env' = wputenv_s(env, modified_path', L_PATH)
    /\ calls' = calls \o <<"_wgetenv_s", "_wputenv_s">>
    /\ pc' = "wstat_dll"
    /\ UNCHANGED <<sbk, inputs, pyvars, outvars, path, bin_dir, info, envsize, pythonpath>>

\* variant: the test looks at bin_dir again instead of pydll
win_wstat_dll_statsBin ==
    /\ platform = "win" /\ pc = "wstat_dll"
    /\ IF wstat(fs, bin_dir) # 0
       THEN /\ dialogs' = Append(dialogs, "The 'python27.dll' seems to be missing.")
            /\ calls' = calls \o <<"_wstat", "MessageBox", "exit">>
            /\ term' = "exit" /\ exitCode' = 1 /\ pc' = "done"
            /\ UNCHANGED info
       ELSE /\ info' = st_mode(fs, bin_dir)
            /\ Continue("_wstat", "wputenv_PYTHONPATH")
    /\ UNCHANGED <<sbk, inputs, env, pyvars, path, bin_dir, envsize, pathvar, modified_path, pythonpath>>

\* variant: PYTHONPATH is written before python27.dll is looked for
win_wstat_dll_putenvFirst ==
    /\ platform = "win" /\ pc = "wstat_dll"
    /\ pythonpath' = path \o L_shared
    /\ env' = wputenv_s(env, pythonpath', L_PYTHONPATH)
    /\ LET pydll == path \o L_python27dll
       IN  IF wstat(fs, pydll) # 0
           THEN /\ dialogs' = Append(dialogs, "The 'python27.dll' seems to be missing.")
                /\ calls' = calls \o <<"_wputenv_s", "_wstat", "MessageBox", "exit">>
                /\ term' = "exit" /\ exitCode' = 1 /\ pc' = "done"
                /\ UNCHANGED info
           ELSE /\ info' = st_mode(fs, pydll)
                /\ calls' = calls \o <<"_wputenv_s", "_wstat">>
                /\ pc' = "Py_SetProgramName"
                /\ UNCHANGED outvars
    /\ UNCHANGED <<sbk, inputs, pyvars, path, bin_dir, envsize, pathvar, modified_path>>

\* pydll = path + L"\\python27.dll"; if (_wstat(pydll, &info) != 0) { MessageBox; exit(1); }
win_wstat_dll ==
    /\ platform = "win" /\ pc = "wstat_dll"
    /\ LET pydll == path \o L_python27dll
       IN  IF wstat(fs, pydll) # 0
           THEN /\ dialogs' = Append(dialogs, "The 'python27.dll' seems to be missing.")
                /\ calls' = calls \o <<"_wstat", "MessageBox", "exit">>
                /\ term' = "exit" /\ exitCode' = 1 /\ pc' = "done"
                /\ UNCHANGED info
           ELSE /\ info' = st_mode(fs, pydll)
                /\ Continue("_wstat", "wputenv_PYTHONPATH")
    /\ UNCHANGED <<sbk, inputs, env, pyvars, path, bin_dir, envsize, pathvar, modified_path, pythonpath>>

\* variant: the environment write is left out
win_wputenv_PYTHONPATH_omitted ==
    /\ platform = "win" /\ pc = "wputenv_PYTHONPATH"
    /\ pythonpath' = path \o L_shared
    /\ pc' = "Py_SetProgramName"
    /\ UNCHANGED <<sbk, inputs, env, pyvars, outvars, calls, path, bin_dir, info, envsize, pathvar, modified_path>>

\* pythonpath = path + L"\\shared"; _wputenv_s(pythonpath.c_str(), L"PYTHONPATH");
win_wputenv_PYTHONPATH ==
    /\ platform = "win" /\ pc = "wputenv_PYTHONPATH"
    /\ pythonpath' = path \o L_shared
    /\ env' = wputenv_s(env, pythonpath', L_PYTHONPATH)
    /\ Continue("_wputenv_s", "Py_SetProgramName")
    /\ UNCHANGED <<sbk, inputs, pyvars, path, bin_dir, info, envsize, pathvar, modified_path>>

(***************************************************************************)
(* The embedded interpreter.                                               *)
(***************************************************************************)
\* PyRun_SimpleString(c): what the call can do with the string c.  It
\* returns 0 when the string ran to its end and -1 when an exception was
\* raised; an unhandled SystemExit (sys.exit in the application, exit(0) in
\* the string) ends the process through Py_Exit instead of returning.  The
\* empty string runs nothing and returns 0.
PyRun_SimpleString(c) ==
    IF c = <<>>
    THEN { [kind |-> "return", v |-> 0] }
    ELSE { [kind |-> "return", v |-> -1] }
         \cup { [kind |-> "Py_Exit", v |-> n] : n \in 0..MaxExitCode }
         \cup (IF EndsWith(c, S_exit0) THEN {} ELSE { [kind |-> "return", v |-> 0] })

(***************************************************************************)
(* Windows launcher, main: interpreter set-up, hand-off and report.        *)
(***************************************************************************)
\* Py_SetProgramName(argv[0]);
win_Py_SetProgramName ==
    /\ platform = "win" /\ pc = "Py_SetProgramName"
    /\ Continue("Py_SetProgramName", "PyEval_InitThreads")
    /\ UNCHANGED <<sbk, inputs, env, locals, pyvars>>

\* PyEval_InitThreads();
win_PyEval_InitThreads ==
    /\ platform = "win" /\ pc = "PyEval_InitThreads"
    /\ Continue("PyEval_InitThreads", "Py_Initialize")
    /\ UNCHANGED <<sbk, inputs, env, locals, pyvars>>

\* Py_Initialize();  it has no result: a failed initialisation is a fatal
\* error of the interpreter, which aborts the process
win_Py_Initialize ==
    /\ platform = "win" /\ pc = "Py_Initialize"
    /\ \E ok \in BOOLEAN :
         IF ok
         THEN /\ interp' = "initialized"
              /\ Continue("Py_Initialize", "PySys_SetArgv")
         ELSE /\ calls' = calls \o <<"Py_Initialize", "Py_FatalError", "abort">>
              /\ term' = "abort" /\ pc' = "done"
              /\ UNCHANGED <<interp, dialogs, exitCode>>
    /\ UNCHANGED <<sbk, inputs, env, locals, cmd, res, passed>>

\* PySys_SetArgv(argc, argv);
win_PySys_SetArgv ==
    /\ platform = "win" /\ pc = "PySys_SetArgv"
    /\ Continue("PySys_SetArgv", "WstrToUtf8Str")
    /\ UNCHANGED <<sbk, inputs, env, locals, pyvars>>

\* wcmd = L"import os;...r'" + modified_path + L"';...r'" + path + L"\\shared"
\*        + L"';import bookmarks; bookmarks.exec_();";
wcmd ==
    L_cmd_head \o modified_path \o L_cmd_mid \o (path \o L_shared) \o L_cmd_tail

\* std::string cmd = WstrToUtf8Str(wcmd);  nothing catches the runtime_error
win_WstrToUtf8Str ==
    /\ platform = "win" /\ pc = "WstrToUtf8Str"
    /\ \E sizeOk \in BOOLEAN, convOk \in BOOLEAN :
         LET r == WstrToUtf8Str(wcmd, sizeOk, convOk)
         IN  IF r.threw
             THEN /\ calls' = calls \o <<"WstrToUtf8Str", "throw", "abort">>
                  /\ term' = "abort" /\ pc' = "done"
                  /\ UNCHANGED <<cmd, dialogs, exitCode>>
             ELSE /\ cmd' = r.retStr
                  /\ Continue("WstrToUtf8Str", "PyRun_SimpleString")
    /\ UNCHANGED <<sbk, inputs, env, locals, interp, res, passed>>

\* int res = PyRun_SimpleString(cmd.c_str());
win_PyRun_SimpleString ==
    /\ platform = "win" /\ pc = "PyRun_SimpleString"
    /\ passed' = Append(passed, cmd)
    /\ \E o \in PyRun_SimpleString(cmd) :
         IF o.kind = "return"
         THEN /\ res' = o.v
              /\ Continue("PyRun_SimpleString", "report")
              /\ UNCHANGED interp
         ELSE /\ interp' = "finalized"
              /\ calls' = calls \o <<"PyRun_SimpleString", "Py_Exit", "Py_Finalize", "exit">>
              /\ term' = "exit" /\ exitCode' = o.v /\ pc' = "done"
              /\ UNCHANGED <<res, dialogs>>
    /\ UNCHANGED <<sbk, inputs, env, locals, cmd>>

\* variant: the else branch leaves with exit(1) as well
win_report_exit1 ==
    /\ platform = "win" /\ pc = "report"
    /\ interp' = "finalized"
    /\ IF res = -1
       THEN /\ dialogs' = Append(dialogs, "An internal Python error occured.")
            /\ calls' = calls \o <<"Py_Finalize", "MessageBox", "exit">>
       ELSE /\ calls' = calls \o <<"Py_Finalize", "exit">>
            /\ UNCHANGED dialogs
    /\ exitCode' = 1
    /\ term' = "exit" /\ pc' = "done"
    /\ UNCHANGED <<sbk, inputs, env, locals, cmd, res, passed>>

\* if (res == -1) { Py_Finalize(); MessageBox; exit(1); }
\* else { Py_Finalize(); exit(0); }
win_report ==
    /\ platform = "win" /\ pc = "report"
    /\ interp' = "finalized"
    /\ IF res = -1
       THEN /\ dialogs' = Append(dialogs, "An internal Python error occured.")
            /\ calls' = calls \o <<"Py_Finalize", "MessageBox", "exit">>
            /\ exitCode' = 1
       ELSE /\ calls' = calls \o <<"Py_Finalize", "exit">>
            /\ exitCode' = 0
            /\ UNCHANGED dialogs
    /\ term' = "exit" /\ pc' = "done"
    /\ UNCHANGED <<sbk, inputs, env, locals, cmd, res, passed>>

(***************************************************************************)
(* macOS launcher, main.                                                   *)
(***************************************************************************)
\* std::string cmd = "import bookmarks; bookmarks.exec_(); exit(0);";
\* Py_SetProgramName(argv[0]);
osx_Py_SetProgramName ==
    /\ platform = "osx" /\ pc = "Py_SetProgramName"
    /\ cmd' = osx_cmd
    /\ Continue("Py_SetProgramName", "PyEval_InitThreads")
    /\ UNCHANGED <<sbk, inputs, env, locals, interp, res, passed>>

\* PyEval_InitThreads();
osx_PyEval_InitThreads ==
    /\ platform = "osx" /\ pc = "PyEval_InitThreads"
    /\ Continue("PyEval_InitThreads", "Py_Initialize")
    /\ UNCHANGED <<sbk, inputs, env, locals, pyvars>>

\* Py_Initialize();
osx_Py_Initialize ==
    /\ platform = "osx" /\ pc = "Py_Initialize"
    /\ \E ok \in BOOLEAN :
         IF ok
         THEN /\ interp' = "initialized"
              /\ Continue("Py_Initialize", "PySys_SetArgv")
         ELSE /\ calls' = calls \o <<"Py_Initialize", "Py_FatalError", "abort">>
              /\ term' = "abort" /\ pc' = "done"
              /\ UNCHANGED <<interp, dialogs, exitCode>>
    /\ UNCHANGED <<sbk, inputs, env, locals, cmd, res, passed>>

\* PySys_SetArgv(argc, argv);
osx_PySys_SetArgv ==
    /\ platform = "osx" /\ pc = "PySys_SetArgv"
    /\ Continue("PySys_SetArgv", "PyRun_SimpleString")
    /\ UNCHANGED <<sbk, inputs, env, locals, pyvars>>

\* int res = PyRun_SimpleString(cmd.c_str());
osx_PyRun_SimpleString ==
    /\ platform = "osx" /\ pc = "PyRun_SimpleString"
    /\ passed' = Append(passed, cmd)
    /\ \E o \in PyRun_SimpleString(cmd) :
         IF o.kind = "return"
         THEN /\ res' = o.v
              /\ Continue("PyRun_SimpleString", "report")
              /\ UNCHANGED interp
         ELSE /\ interp' = "finalized"
              /\ calls' = calls \o <<"PyRun_SimpleString", "Py_Exit", "Py_Finalize", "exit">>
              /\ term' = "exit" /\ exitCode' = o.v /\ pc' = "done"
              /\ UNCHANGED <<res, dialogs>>
    /\ UNCHANGED <<sbk, inputs, env, locals, cmd>>

\* variant: the alert is shown before the interpreter is finalised
osx_report_alertFirst ==
    /\ platform = "osx" /\ pc = "report"
    /\ interp' = "finalized"
    /\ IF res = -1
       THEN /\ dialogs' = Append(dialogs, "An internal Python error occured.")
            /\ calls' = calls \o <<"CFUserNotificationDisplayAlert", "Py_Finalize", "exit">>
            /\ exitCode' = 1
       ELSE /\ calls' = calls \o <<"Py_Finalize", "exit">>
            /\ exitCode' = 0
            /\ UNCHANGED dialogs
    /\ term' = "exit" /\ pc' = "done"
    /\ UNCHANGED <<sbk, inputs, env, locals, cmd, res, passed>>

\* if (res == -1) { Py_Finalize(); CFUserNotificationDisplayAlert; exit(1); }
\* Py_Finalize(); exit(0);
osx_report ==
    /\ platform = "osx" /\ pc = "report"
    /\ interp' = "finalized"
    /\ IF res = -1
       THEN /\ dialogs' = Append(dialogs, "An internal Python error occured.")
            /\ calls' = calls \o <<"Py_Finalize", "CFUserNotificationDisplayAlert", "exit">>
            /\ exitCode' = 1
       ELSE /\ calls' = calls \o <<"Py_Finalize", "exit">>
            /\ exitCode' = 0
            /\ UNCHANGED dialogs
    /\ term' = "exit" /\ pc' = "done"
    /\ UNCHANGED <<sbk, inputs, env, locals, cmd, res, passed>>

(***************************************************************************)
(* The specification.                                                      *)
(***************************************************************************)
Next ==
    \/ win_GetModuleFileNameW
    \/ win_PathRemoveFileSpecW
    \/ win_wstat_bin
    \/ win_S_IFDIR
    \/ win_wgetenv_size
    \/ win_malloc
    \/ win_wputenv_PATH
    \/ win_wstat_dll
    \/ win_wputenv_PYTHONPATH
    \/ win_Py_SetProgramName
    \/ win_PyEval_InitThreads
    \/ win_Py_Initialize
    \/ win_PySys_SetArgv
    \/ win_WstrToUtf8Str
    \/ win_PyRun_SimpleString
    \/ win_report
    \/ osx_Py_SetProgramName
    \/ osx_PyEval_InitThreads
    \/ osx_Py_Initialize
    \/ osx_PySys_SetArgv
    \/ osx_PyRun_SimpleString
    \/ osx_report

Spec == Init /\ [][Next]_vars

\* main is one thread of straight-line code: as long as every call returns,
\* the next statement is executed
FairSpec == Spec /\ WF_vars(Next)

(***************************************************************************)
(* The QtGui binding header, pyside2_qtgui_python.h.                       *)
(***************************************************************************)
\* #define SBK_QtGui_IDX_COUNT 295
SBK_QtGui_IDX_COUNT == 295

\* #define SBK_QtGui_CONVERTERS_IDX_COUNT 46
SBK_QtGui_CONVERTERS_IDX_COUNT == 46

\* the #define lines under "// Type indices", in the order of the header
TypeIndices ==
    << [name |-> "SBK_QMATRIX4X3_IDX", value |-> 113],
       [name |-> "SBK_QMATRIX4X2_IDX", value |-> 112],
       [name |-> "SBK_QMATRIX3X4_IDX", value |-> 111],
       [name |-> "SBK_QMATRIX3X3_IDX", value |-> 110],
       [name |-> "SBK_QMATRIX3X2_IDX", value |-> 109],
       [name |-> "SBK_QMATRIX2X4_IDX", value |-> 108],
       [name |-> "SBK_QMATRIX2X3_IDX", value |-> 107],
       [name |-> "SBK_QMATRIX2X2_IDX", value |-> 106],
       [name |-> "SBK_QDESKTOPSERVICES_IDX", value |-> 27],
       [name |-> "SBK_QTEXTTABLECELL_IDX", value |-> 270],
       [name |-> "SBK_QTEXTFRAGMENT_IDX", value |-> 241],
       [name |-> "SBK_QTEXTBLOCK_IDX", value |-> 216],
       [name |-> "SBK_QTEXTBLOCK_ITERATOR_IDX", value |-> 217],
       [name |-> "SBK_QTEXTBLOCKUSERDATA_IDX", value |-> 220],
       [name |-> "SBK_QTEXTOBJECTINTERFACE_IDX", value |-> 263],
       [name |-> "SBK_QTEXTLINE_IDX", value |-> 256],
       [name |-> "SBK_QTEXTLINE_EDGE_IDX", value |-> 258],
       [name |-> "SBK_QTEXTLINE_CURSORPOSITION_IDX", value |-> 257],
       [name |-> "SBK_QTEXTINLINEOBJECT_IDX", value |-> 248],
       [name |-> "SBK_QTEXTCURSOR_IDX", value |-> 225],
       [name |-> "SBK_QTEXTCURSOR_MOVEMODE_IDX", value |-> 226],
       [name |-> "SBK_QTEXTCURSOR_MOVEOPERATION_IDX", value |-> 227],
       [name |-> "SBK_QTEXTCURSOR_SELECTIONTYPE_IDX", value |-> 228],
       [name |-> "SBK_QFONTDATABASE_IDX", value |-> 62],
       [name |-> "SBK_QFONTDATABASE_WRITINGSYSTEM_IDX", value |-> 64],
       [name |-> "SBK_QFONTDATABASE_SYSTEMFONT_IDX", value |-> 63],
       [name |-> "SBK_QTEXTFORMAT_IDX", value |-> 236],
       [name |-> "SBK_QTEXTFORMAT_FORMATTYPE_IDX", value |-> 237],
       [name |-> "SBK_QTEXTFORMAT_PROPERTY_IDX", value |-> 240],
       [name |-> "SBK_QTEXTFORMAT_OBJECTTYPES_IDX", value |-> 238],
       [name |-> "SBK_QTEXTFORMAT_PAGEBREAKFLAG_IDX", value |-> 239],
       [name |-> "SBK_QFLAGS_QTEXTFORMAT_PAGEBREAKFLAG__IDX", value |-> 48],
       [name |-> "SBK_QTEXTLISTFORMAT_IDX", value |-> 260],
       [name |-> "SBK_QTEXTLISTFORMAT_STYLE_IDX", value |-> 261],
       [name |-> "SBK_QTEXTBLOCKFORMAT_IDX", value |-> 218],
       [name |-> "SBK_QTEXTBLOCKFORMAT_LINEHEIGHTTYPES_IDX", value |-> 294],
       [name |-> "SBK_QTEXTFRAMEFORMAT_IDX", value |-> 244],
       [name |-> "SBK_QTEXTFRAMEFORMAT_POSITION_IDX", value |-> 246],
       [name |-> "SBK_QTEXTFRAMEFORMAT_BORDERSTYLE_IDX", value |-> 245],
       [name |-> "SBK_QTEXTTABLEFORMAT_IDX", value |-> 272],
       [name |-> "SBK_QTEXTLENGTH_IDX", value |-> 254],
       [name |-> "SBK_QTEXTLENGTH_TYPE_IDX", value |-> 255],
       [name |-> "SBK_QPAINTENGINESTATE_IDX", value |-> 150],
       [name |-> "SBK_QPAINTENGINE_IDX", value |-> 145],
       [name |-> "SBK_QPAINTENGINE_PAINTENGINEFEATURE_IDX", value |-> 147],
       [name |-> "SBK_QFLAGS_QPAINTENGINE_PAINTENGINEFEATURE__IDX", value |-> 42],
       [name |-> "SBK_QPAINTENGINE_DIRTYFLAG_IDX", value |-> 146],
       [name |-> "SBK_QFLAGS_QPAINTENGINE_DIRTYFLAG__IDX", value |-> 41],
       [name |-> "SBK_QPAINTENGINE_POLYGONDRAWMODE_IDX", value |-> 148],
       [name |-> "SBK_QPAINTENGINE_TYPE_IDX", value |-> 149],
       [name |-> "SBK_QTEXTITEM_IDX", value |-> 249],
       [name |-> "SBK_QTEXTITEM_RENDERFLAG_IDX", value |-> 250],
       [name |-> "SBK_QFLAGS_QTEXTITEM_RENDERFLAG__IDX", value |-> 49],
       [name |-> "SBK_QFONTMETRICSF_IDX", value |-> 67],
       [name |-> "SBK_QFONTMETRICS_IDX", value |-> 66],
       [name |-> "SBK_QFONTINFO_IDX", value |-> 65],
       [name |-> "SBK_QPEN_IDX", value |-> 165],
       [name |-> "SBK_QTEXTOPTION_IDX", value |-> 264],
       [name |-> "SBK_QTEXTOPTION_TABTYPE_IDX", value |-> 267],
       [name |-> "SBK_QTEXTOPTION_WRAPMODE_IDX", value |-> 268],
       [name |-> "SBK_QTEXTOPTION_FLAG_IDX", value |-> 265],
       [name |-> "SBK_QFLAGS_QTEXTOPTION_FLAG__IDX", value |-> 50],
       [name |-> "SBK_QTEXTOPTION_TAB_IDX", value |-> 266],
       [name |-> "SBK_QPAGESIZE_IDX", value |-> 135],
       [name |-> "SBK_QPAGESIZE_PAGESIZEID_IDX", value |-> 136],
       [name |-> "SBK_QPAGESIZE_UNIT_IDX", value |-> 138],
       [name |-> "SBK_QPAGESIZE_SIZEMATCHPOLICY_IDX", value |-> 137],
       [name |-> "SBK_QOPENGLFRAMEBUFFEROBJECT_IDX", value |-> 127],
       [name |-> "SBK_QOPENGLFRAMEBUFFEROBJECT_ATTACHMENT_IDX", value |-> 128],
       [name |-> "SBK_QOPENGLBUFFER_IDX", value |-> 120],
       [name |-> "SBK_QOPENGLBUFFER_TYPE_IDX", value |-> 123],
       [name |-> "SBK_QOPENGLBUFFER_USAGEPATTERN_IDX", value |-> 124],
       [name |-> "SBK_QOPENGLBUFFER_ACCESS_IDX", value |-> 121],
       [name |-> "SBK_QOPENGLBUFFER_RANGEACCESSFLAG_IDX", value |-> 122],
       [name |-> "SBK_QFLAGS_QOPENGLBUFFER_RANGEACCESSFLAG__IDX", value |-> 39],
       [name |-> "SBK_QMATRIX4X4_IDX", value |-> 114],
       [name |-> "SBK_QQUATERNION_IDX", value |-> 182],
       [name |-> "SBK_QVECTOR4D_IDX", value |-> 286],
       [name |-> "SBK_QVECTOR3D_IDX", value |-> 285],
       [name |-> "SBK_QPALETTE_IDX", value |-> 161],
       [name |-> "SBK_QPALETTE_COLORGROUP_IDX", value |-> 162],
       [name |-> "SBK_QPALETTE_COLORROLE_IDX", value |-> 163],
       [name |-> "SBK_QSURFACE_IDX", value |-> 204],
       [name |-> "SBK_QSURFACE_SURFACECLASS_IDX", value |-> 205],
       [name |-> "SBK_QSURFACE_SURFACETYPE_IDX", value |-> 206],
       [name |-> "SBK_QSURFACEFORMAT_IDX", value |-> 207],
       [name |-> "SBK_QSURFACEFORMAT_FORMATOPTION_IDX", value |-> 208],
       [name |-> "SBK_QFLAGS_QSURFACEFORMAT_FORMATOPTION__IDX", value |-> 46],
       [name |-> "SBK_QSURFACEFORMAT_SWAPBEHAVIOR_IDX", value |-> 211],
       [name |-> "SBK_QSURFACEFORMAT_RENDERABLETYPE_IDX", value |-> 210],
       [name |-> "SBK_QSURFACEFORMAT_OPENGLCONTEXTPROFILE_IDX", value |-> 209],
       [name |-> "SBK_QCURSOR_IDX", value |-> 26],
       [name |-> "SBK_QSTANDARDITEM_IDX", value |-> 197],
       [name |-> "SBK_QSTANDARDITEM_ITEMTYPE_IDX", value |-> 198],
       [name |-> "SBK_QFONT_IDX", value |-> 54],
       [name |-> "SBK_QFONT_STYLEHINT_IDX", value |-> 59],
       [name |-> "SBK_QFONT_STYLESTRATEGY_IDX", value |-> 60],
       [name |-> "SBK_QFONT_HINTINGPREFERENCE_IDX", value |-> 293],
       [name |-> "SBK_QFONT_WEIGHT_IDX", value |-> 61],
       [name |-> "SBK_QFONT_STYLE_IDX", value |-> 58],
       [name |-> "SBK_QFONT_STRETCH_IDX", value |-> 57],
       [name |-> "SBK_QFONT_CAPITALIZATION_IDX", value |-> 55],
       [name |-> "SBK_QFONT_SPACINGTYPE_IDX", value |-> 56],
       [name |-> "SBK_QTEXTCHARFORMAT_IDX", value |-> 221],
       [name |-> "SBK_QTEXTCHARFORMAT_VERTICALALIGNMENT_IDX", value |-> 224],
       [name |-> "SBK_QTEXTCHARFORMAT_UNDERLINESTYLE_IDX", value |-> 223],
       [name |-> "SBK_QTEXTCHARFORMAT_FONTPROPERTIESINHERITANCEBEHAVIOR_IDX", value |-> 222],
       [name |-> "SBK_QTEXTTABLECELLFORMAT_IDX", value |-> 271],
       [name |-> "SBK_QTEXTIMAGEFORMAT_IDX", value |-> 247],
       [name |-> "SBK_QGRADIENT_IDX", value |-> 68],
       [name |-> "SBK_QGRADIENT_TYPE_IDX", value |-> 72],
       [name |-> "SBK_QGRADIENT_SPREAD_IDX", value |-> 71],
       [name |-> "SBK_QGRADIENT_COORDINATEMODE_IDX", value |-> 69],
       [name |-> "SBK_QGRADIENT_INTERPOLATIONMODE_IDX", value |-> 70],
       [name |-> "SBK_QCONICALGRADIENT_IDX", value |-> 23],
       [name |-> "SBK_QRADIALGRADIENT_IDX", value |-> 183],
       [name |-> "SBK_QLINEARGRADIENT_IDX", value |-> 104],
       [name |-> "SBK_QBRUSH_IDX", value |-> 16],
       [name |-> "SBK_QPIXMAPCACHE_IDX", value |-> 177],
       [name |-> "SBK_QPIXMAPCACHE_KEY_IDX", value |-> 178],
       [name |-> "SBK_QPICTUREIO_IDX", value |-> 167],
       [name |-> "SBK_QIMAGEIOHANDLER_IDX", value |-> 87],
       [name |-> "SBK_QIMAGEIOHANDLER_IMAGEOPTION_IDX", value |-> 88],
       [name |-> "SBK_QIMAGEIOHANDLER_TRANSFORMATION_IDX", value |-> 89],
       [name |-> "SBK_QFLAGS_QIMAGEIOHANDLER_TRANSFORMATION__IDX", value |-> 38],
       [name |-> "SBK_QTRANSFORM_IDX", value |-> 280],
       [name |-> "SBK_QTRANSFORM_TRANSFORMATIONTYPE_IDX", value |-> 281],
       [name |-> "SBK_QSTATICTEXT_IDX", value |-> 200],
       [name |-> "SBK_QSTATICTEXT_PERFORMANCEHINT_IDX", value |-> 201],
       [name |-> "SBK_QRAWFONT_IDX", value |-> 185],
       [name |-> "SBK_QRAWFONT_ANTIALIASINGTYPE_IDX", value |-> 186],
       [name |-> "SBK_QRAWFONT_LAYOUTFLAG_IDX", value |-> 187],
       [name |-> "SBK_QFLAGS_QRAWFONT_LAYOUTFLAG__IDX", value |-> 45],
       [name |-> "SBK_QPAINTERPATHSTROKER_IDX", value |-> 160],
       [name |-> "SBK_QMATRIX_IDX", value |-> 105],
       [name |-> "SBK_QPAINTERPATH_IDX", value |-> 157],
       [name |-> "SBK_QPAINTERPATH_ELEMENTTYPE_IDX", value |-> 159],
       [name |-> "SBK_QPAINTERPATH_ELEMENT_IDX", value |-> 158],
       [name |-> "SBK_QPOLYGONF_IDX", value |-> 180],
       [name |-> "SBK_QVECTOR_QPOINTF_IDX", value |-> 180],
       [name |-> "SBK_QPOLYGON_IDX", value |-> 179],
       [name |-> "SBK_QVECTOR_QPOINT_IDX", value |-> 179],
       [name |-> "SBK_QPIXELFORMAT_IDX", value |-> 168],
       [name |-> "SBK_QPIXELFORMAT_COLORMODEL_IDX", value |-> 173],
       [name |-> "SBK_QPIXELFORMAT_ALPHAUSAGE_IDX", value |-> 171],
       [name |-> "SBK_QPIXELFORMAT_ALPHAPOSITION_IDX", value |-> 169],
       [name |-> "SBK_QPIXELFORMAT_ALPHAPREMULTIPLIED_IDX", value |-> 170],
       [name |-> "SBK_QPIXELFORMAT_TYPEINTERPRETATION_IDX", value |-> 174],
       [name |-> "SBK_QPIXELFORMAT_YUVLAYOUT_IDX", value |-> 175],
       [name |-> "SBK_QPIXELFORMAT_BYTEORDER_IDX", value |-> 172],
       [name |-> "SBK_QPAINTDEVICE_IDX", value |-> 142],
       [name |-> "SBK_QPAINTDEVICE_PAINTDEVICEMETRIC_IDX", value |-> 143],
       [name |-> "SBK_QPAGEDPAINTDEVICE_IDX", value |-> 139],
       [name |-> "SBK_QPAGEDPAINTDEVICE_PAGESIZE_IDX", value |-> 141],
       [name |-> "SBK_QPAGEDPAINTDEVICE_MARGINS_IDX", value |-> 140],
       [name |-> "SBK_QPICTURE_IDX", value |-> 166],
       [name |-> "SBK_QACCESSIBLEEVENT_IDX", value |-> 11],
       [name |-> "SBK_QACCESSIBLEINTERFACE_IDX", value |-> 12],
       [name |-> "SBK_QACCESSIBLE_IDX", value |-> 3],
       [name |-> "SBK_QACCESSIBLE_EVENT_IDX", value |-> 4],
       [name |-> "SBK_QACCESSIBLE_ROLE_IDX", value |-> 7],
       [name |-> "SBK_QACCESSIBLE_TEXT_IDX", value |-> 9],
       [name |-> "SBK_QACCESSIBLE_RELATIONFLAG_IDX", value |-> 6],
       [name |-> "SBK_QACCESSIBLE_INTERFACETYPE_IDX", value |-> 5],
       [name |-> "SBK_QACCESSIBLE_TEXTBOUNDARYTYPE_IDX", value |-> 10],
       [name |-> "SBK_QACCESSIBLE_STATE_IDX", value |-> 8],
       [name |-> "SBK_QTOUCHDEVICE_IDX", value |-> 274],
       [name |-> "SBK_QTOUCHDEVICE_DEVICETYPE_IDX", value |-> 276],
       [name |-> "SBK_QTOUCHDEVICE_CAPABILITYFLAG_IDX", value |-> 275],
       [name |-> "SBK_QFLAGS_QTOUCHDEVICE_CAPABILITYFLAG__IDX", value |-> 51],
       [name |-> "SBK_QVECTOR2D_IDX", value |-> 284],
       [name |-> "SBK_QKEYSEQUENCE_IDX", value |-> 100],
       [name |-> "SBK_QKEYSEQUENCE_STANDARDKEY_IDX", value |-> 103],
       [name |-> "SBK_QKEYSEQUENCE_SEQUENCEFORMAT_IDX", value |-> 101],
       [name |-> "SBK_QKEYSEQUENCE_SEQUENCEMATCH_IDX", value |-> 102],
       [name |-> "SBK_QCOLOR_IDX", value |-> 20],
       [name |-> "SBK_QCOLOR_SPEC_IDX", value |-> 22],
       [name |-> "SBK_QCOLOR_NAMEFORMAT_IDX", value |-> 21],
       [name |-> "SBK_QTEXTLAYOUT_IDX", value |-> 251],
       [name |-> "SBK_QTEXTLAYOUT_CURSORMODE_IDX", value |-> 252],
       [name |-> "SBK_QTEXTLAYOUT_FORMATRANGE_IDX", value |-> 253],
       [name |-> "SBK_QPIXMAP_IDX", value |-> 176],
       [name |-> "SBK_QIMAGE_IDX", value |-> 84],
       [name |-> "SBK_QIMAGE_INVERTMODE_IDX", value |-> 86],
       [name |-> "SBK_QIMAGE_FORMAT_IDX", value |-> 85],
       [name |-> "SBK_QBITMAP_IDX", value |-> 15],
       [name |-> "SBK_QICON_IDX", value |-> 77],
       [name |-> "SBK_QICON_MODE_IDX", value |-> 78],
       [name |-> "SBK_QICON_STATE_IDX", value |-> 79],
       [name |-> "SBK_QICONENGINE_IDX", value |-> 81],
       [name |-> "SBK_QICONENGINE_ICONENGINEHOOK_IDX", value |-> 83],
       [name |-> "SBK_QICONENGINE_AVAILABLESIZESARGUMENT_IDX", value |-> 82],
       [name |-> "SBK_QPAGELAYOUT_IDX", value |-> 131],
       [name |-> "SBK_QPAGELAYOUT_UNIT_IDX", value |-> 134],
       [name |-> "SBK_QPAGELAYOUT_ORIENTATION_IDX", value |-> 133],
       [name |-> "SBK_QPAGELAYOUT_MODE_IDX", value |-> 132],
       [name |-> "SBK_QPAINTER_IDX", value |-> 152],
       [name |-> "SBK_QPAINTER_RENDERHINT_IDX", value |-> 156],
       [name |-> "SBK_QFLAGS_QPAINTER_RENDERHINT__IDX", value |-> 44],
       [name |-> "SBK_QPAINTER_PIXMAPFRAGMENTHINT_IDX", value |-> 155],
       [name |-> "SBK_QFLAGS_QPAINTER_PIXMAPFRAGMENTHINT__IDX", value |-> 43],
       [name |-> "SBK_QPAINTER_COMPOSITIONMODE_IDX", value |-> 153],
       [name |-> "SBK_QPAINTER_PIXMAPFRAGMENT_IDX", value |-> 154],
       [name |-> "SBK_QBACKINGSTORE_IDX", value |-> 14],
       [name |-> "SBK_QWINDOWSTATECHANGEEVENT_IDX", value |-> 292],
       [name |-> "SBK_QSHORTCUTEVENT_IDX", value |-> 195],
       [name |-> "SBK_QDROPEVENT_IDX", value |-> 34],
       [name |-> "SBK_QDRAGMOVEEVENT_IDX", value |-> 33],
       [name |-> "SBK_QDRAGENTEREVENT_IDX", value |-> 31],
       [name |-> "SBK_QINPUTMETHODEVENT_IDX", value |-> 95],
       [name |-> "SBK_QINPUTMETHODEVENT_ATTRIBUTETYPE_IDX", value |-> 97],
       [name |-> "SBK_QINPUTMETHODEVENT_ATTRIBUTE_IDX", value |-> 96],
       [name |-> "SBK_QCLOSEEVENT_IDX", value |-> 19],
       [name |-> "SBK_QSTATUSTIPEVENT_IDX", value |-> 202],
       [name |-> "SBK_QRESIZEEVENT_IDX", value |-> 191],
       [name |-> "SBK_QHELPEVENT_IDX", value |-> 74],
       [name |-> "SBK_QEXPOSEEVENT_IDX", value |-> 36],
       [name |-> "SBK_QDRAGLEAVEEVENT_IDX", value |-> 32],
       [name |-> "SBK_QMOVEEVENT_IDX", value |-> 116],
       [name |-> "SBK_QHIDEEVENT_IDX", value |-> 75],
       [name |-> "SBK_QSHOWEVENT_IDX", value |-> 196],
       [name |-> "SBK_QICONDRAGEVENT_IDX", value |-> 80],
       [name |-> "SBK_QENTEREVENT_IDX", value |-> 35],
       [name |-> "SBK_QPAINTEVENT_IDX", value |-> 151],
       [name |-> "SBK_QFOCUSEVENT_IDX", value |-> 53],
       [name |-> "SBK_QINPUTEVENT_IDX", value |-> 94],
       [name |-> "SBK_QKEYEVENT_IDX", value |-> 99],
       [name |-> "SBK_QTABLETEVENT_IDX", value |-> 213],
       [name |-> "SBK_QTABLETEVENT_TABLETDEVICE_IDX", value |-> 215],
       [name |-> "SBK_QTABLETEVENT_POINTERTYPE_IDX", value |-> 214],
       [name |-> "SBK_QCONTEXTMENUEVENT_IDX", value |-> 24],
       [name |-> "SBK_QCONTEXTMENUEVENT_REASON_IDX", value |-> 25],
       [name |-> "SBK_QTOUCHEVENT_IDX", value |-> 277],
       [name |-> "SBK_QTOUCHEVENT_TOUCHPOINT_IDX", value |-> 278],
       [name |-> "SBK_QTOUCHEVENT_TOUCHPOINT_INFOFLAG_IDX", value |-> 279],
       [name |-> "SBK_QFLAGS_QTOUCHEVENT_TOUCHPOINT_INFOFLAG__IDX", value |-> 52],
       [name |-> "SBK_QWHEELEVENT_IDX", value |-> 288],
       [name |-> "SBK_QHOVEREVENT_IDX", value |-> 76],
       [name |-> "SBK_QMOUSEEVENT_IDX", value |-> 115],
       [name |-> "SBK_QTOOLBARCHANGEEVENT_IDX", value |-> 273],
       [name |-> "SBK_QFILEOPENEVENT_IDX", value |-> 37],
       [name |-> "SBK_QACTIONEVENT_IDX", value |-> 13],
       [name |-> "SBK_QWHATSTHISCLICKEDEVENT_IDX", value |-> 287],
       [name |-> "SBK_QREGION_IDX", value |-> 189],
       [name |-> "SBK_QREGION_REGIONTYPE_IDX", value |-> 190],
       [name |-> "SBK_QOPENGLCONTEXT_IDX", value |-> 125],
       [name |-> "SBK_QOPENGLCONTEXT_OPENGLMODULETYPE_IDX", value |-> 126],
       [name |-> "SBK_QSESSIONMANAGER_IDX", value |-> 193],
       [name |-> "SBK_QSESSIONMANAGER_RESTARTHINT_IDX", value |-> 194],
       [name |-> "SBK_QSCREEN_IDX", value |-> 192],
       [name |-> "SBK_QCLIPBOARD_IDX", value |-> 17],
       [name |-> "SBK_QCLIPBOARD_MODE_IDX", value |-> 18],
       [name |-> "SBK_QVALIDATOR_IDX", value |-> 282],
       [name |-> "SBK_QVALIDATOR_STATE_IDX", value |-> 283],
       [name |-> "SBK_QINTVALIDATOR_IDX", value |-> 98],
       [name |-> "SBK_QREGEXPVALIDATOR_IDX", value |-> 188],
       [name |-> "SBK_QDOUBLEVALIDATOR_IDX", value |-> 28],
       [name |-> "SBK_QDOUBLEVALIDATOR_NOTATION_IDX", value |-> 29],
       [name |-> "SBK_QDRAG_IDX", value |-> 30],
       [name |-> "SBK_QSYNTAXHIGHLIGHTER_IDX", value |-> 212],
       [name |-> "SBK_QSTYLEHINTS_IDX", value |-> 203],
       [name |-> "SBK_QPYTEXTOBJECT_IDX", value |-> 181],
       [name |-> "SBK_QOPENGLSHADER_IDX", value |-> 129],
       [name |-> "SBK_QOPENGLSHADER_SHADERTYPEBIT_IDX", value |-> 130],
       [name |-> "SBK_QFLAGS_QOPENGLSHADER_SHADERTYPEBIT__IDX", value |-> 40],
       [name |-> "SBK_QPDFWRITER_IDX", value |-> 164],
       [name |-> "SBK_QSTANDARDITEMMODEL_IDX", value |-> 199],
       [name |-> "SBK_QGUIAPPLICATION_IDX", value |-> 73],
       [name |-> "SBK_QTEXTOBJECT_IDX", value |-> 262],
       [name |-> "SBK_QTEXTFRAME_IDX", value |-> 242],
       [name |-> "SBK_QTEXTTABLE_IDX", value |-> 269],
       [name |-> "SBK_QTEXTFRAME_ITERATOR_IDX", value |-> 243],
       [name |-> "SBK_QTEXTBLOCKGROUP_IDX", value |-> 219],
       [name |-> "SBK_QTEXTLIST_IDX", value |-> 259],
       [name |-> "SBK_QABSTRACTTEXTDOCUMENTLAYOUT_IDX", value |-> 0],
       [name |-> "SBK_QABSTRACTTEXTDOCUMENTLAYOUT_PAINTCONTEXT_IDX", value |-> 1],
       [name |-> "SBK_QABSTRACTTEXTDOCUMENTLAYOUT_SELECTION_IDX", value |-> 2],
       [name |-> "SBK_QWINDOW_IDX", value |-> 289],
       [name |-> "SBK_QWINDOW_VISIBILITY_IDX", value |-> 291],
       [name |-> "SBK_QWINDOW_ANCESTORMODE_IDX", value |-> 290],
       [name |-> "SBK_QPAINTDEVICEWINDOW_IDX", value |-> 144],
       [name |-> "SBK_QRASTERWINDOW_IDX", value |-> 184],
       [name |-> "SBK_QMOVIE_IDX", value |-> 117],
       [name |-> "SBK_QMOVIE_MOVIESTATE_IDX", value |-> 119],
       [name |-> "SBK_QMOVIE_CACHEMODE_IDX", value |-> 118],
       [name |-> "SBK_QIMAGEWRITER_IDX", value |-> 92],
       [name |-> "SBK_QIMAGEWRITER_IMAGEWRITERERROR_IDX", value |-> 93],
       [name |-> "SBK_QIMAGEREADER_IDX", value |-> 90],
       [name |-> "SBK_QIMAGEREADER_IMAGEREADERERROR_IDX", value |-> 91],
       [name |-> "SBK_QTEXTDOCUMENTWRITER_IDX", value |-> 235],
       [name |-> "SBK_QTEXTDOCUMENTFRAGMENT_IDX", value |-> 234],
       [name |-> "SBK_QTEXTDOCUMENT_IDX", value |-> 229],
       [name |-> "SBK_QTEXTDOCUMENT_METAINFORMATION_IDX", value |-> 231],
       [name |-> "SBK_QTEXTDOCUMENT_FINDFLAG_IDX", value |-> 230],
       [name |-> "SBK_QFLAGS_QTEXTDOCUMENT_FINDFLAG__IDX", value |-> 47],
       [name |-> "SBK_QTEXTDOCUMENT_RESOURCETYPE_IDX", value |-> 232],
       [name |-> "SBK_QTEXTDOCUMENT_STACKS_IDX", value |-> 233] >>

\* the #define lines under "// Converter indices", in the order of the header
ConverterIndices ==
    << [name |-> "SBK_WID_IDX", value |-> 0],
       [name |-> "SBK_QTGUI_QVECTOR_QTEXTLAYOUT_FORMATRANGE_IDX", value |-> 1],
       [name |-> "SBK_QTGUI_QLIST_INT_IDX", value |-> 2],
       [name |-> "SBK_QTGUI_QLIST_QFONTDATABASE_WRITINGSYSTEM_IDX", value |-> 3],
       [name |-> "SBK_QTGUI_QVECTOR_QTEXTLENGTH_IDX", value |-> 4],
       [name |-> "SBK_QTGUI_QMAP_INT_QVARIANT_IDX", value |-> 5],
       [name |-> "SBK_QTGUI_QLIST_QTEXTOPTION_TAB_IDX", value |-> 6],
       [name |-> "SBK_QTGUI_QVECTOR_QREAL_IDX", value |-> 7],
       [name |-> "SBK_QTGUI_QLIST_QREAL_IDX", value |-> 8],
       [name |-> "SBK_QTGUI_QVECTOR_QSIZE_IDX", value |-> 9],
       [name |-> "SBK_QTGUI_QLIST_FLOAT_IDX", value |-> 10],
       [name |-> "SBK_QTGUI_QPAIR_INT_INT_IDX", value |-> 11],
       [name |-> "SBK_QTGUI_QLIST_QSTANDARDITEMPTR_IDX", value |-> 12],
       [name |-> "SBK_QTGUI_QPAIR_QREAL_QCOLOR_IDX", value |-> 13],
       [name |-> "SBK_QTGUI_QVECTOR_QPAIR_QREAL_QCOLOR_IDX", value |-> 14],
       [name |-> "SBK_QTGUI_QLIST_QBYTEARRAY_IDX", value |-> 15],
       [name |-> "SBK_QTGUI_QVECTOR_QPOINTF_IDX", value |-> 16],
       [name |-> "SBK_QTGUI_QVECTOR_QUINT32_IDX", value |-> 17],
       [name |-> "SBK_QTGUI_QLIST_QPOLYGONF_IDX", value |-> 18],
       [name |-> "SBK_QTGUI_QLIST_QPOINTF_IDX", value |-> 19],
       [name |-> "SBK_QTGUI_QVECTOR_QPOINT_IDX", value |-> 20],
       [name |-> "SBK_QTGUI_QLIST_QPOINT_IDX", value |-> 21],
       [name |-> "SBK_QTGUI_QLIST_CONSTQTOUCHDEVICEPTR_IDX", value |-> 22],
       [name |-> "SBK_QTGUI_QLIST_QKEYSEQUENCE_IDX", value |-> 23],
       [name |-> "SBK_QTGUI_QLIST_QTEXTLAYOUT_FORMATRANGE_IDX", value |-> 24],
       [name |-> "SBK_QTGUI_QVECTOR_UNSIGNEDINT_IDX", value |-> 25],
       [name |-> "SBK_QTGUI_QLIST_QSIZE_IDX", value |-> 26],
       [name |-> "SBK_QTGUI_QVECTOR_QLINE_IDX", value |-> 27],
       [name |-> "SBK_QTGUI_QVECTOR_QLINEF_IDX", value |-> 28],
       [name |-> "SBK_QTGUI_QVECTOR_QRECT_IDX", value |-> 29],
       [name |-> "SBK_QTGUI_QVECTOR_QRECTF_IDX", value |-> 30],
       [name |-> "SBK_QTGUI_QLIST_QINPUTMETHODEVENT_ATTRIBUTE_IDX", value |-> 31],
       [name |-> "SBK_QTGUI_QLIST_QTOUCHEVENT_TOUCHPOINT_IDX", value |-> 32],
       [name |-> "SBK_QTGUI_QLIST_QOBJECTPTR_IDX", value |-> 33],
       [name |-> "SBK_QTGUI_QSET_QBYTEARRAY_IDX", value |-> 34],
       [name |-> "SBK_QTGUI_QLIST_QSCREENPTR_IDX", value |-> 35],
       [name |-> "SBK_QTGUI_QVECTOR_INT_IDX", value |-> 36],
       [name |-> "SBK_QTGUI_QHASH_INT_QBYTEARRAY_IDX", value |-> 37],
       [name |-> "SBK_QTGUI_QLIST_QPERSISTENTMODELINDEX_IDX", value |-> 38],
       [name |-> "SBK_QTGUI_QLIST_QWINDOWPTR_IDX", value |-> 39],
       [name |-> "SBK_QTGUI_QLIST_QTEXTFRAMEPTR_IDX", value |-> 40],
       [name |-> "SBK_QTGUI_QLIST_QTEXTBLOCK_IDX", value |-> 41],
       [name |-> "SBK_QTGUI_QVECTOR_QTEXTFORMAT_IDX", value |-> 42],
       [name |-> "SBK_QTGUI_QLIST_QVARIANT_IDX", value |-> 43],
       [name |-> "SBK_QTGUI_QLIST_QSTRING_IDX", value |-> 44],
       [name |-> "SBK_QTGUI_QMAP_QSTRING_QVARIANT_IDX", value |-> 45] >>

\* the specialisations SbkType< ::T >() of namespace Shiboken, in the order
\* of the header: the type and the macro whose value indexes the type table
SbkTypeSpecialisations ==
    << [T |-> "QMatrix4x3", index |-> "SBK_QMATRIX4X3_IDX"],
       [T |-> "QMatrix4x2", index |-> "SBK_QMATRIX4X2_IDX"],
       [T |-> "QMatrix3x4", index |-> "SBK_QMATRIX3X4_IDX"],
       [T |-> "QMatrix3x3", index |-> "SBK_QMATRIX3X3_IDX"],
       [T |-> "QMatrix3x2", index |-> "SBK_QMATRIX3X2_IDX"],
       [T |-> "QMatrix2x4", index |-> "SBK_QMATRIX2X4_IDX"],
       [T |-> "QMatrix2x3", index |-> "SBK_QMATRIX2X3_IDX"],
       [T |-> "QMatrix2x2", index |-> "SBK_QMATRIX2X2_IDX"],
       [T |-> "QDesktopServices", index |-> "SBK_QDESKTOPSERVICES_IDX"],
       [T |-> "QTextTableCell", index |-> "SBK_QTEXTTABLECELL_IDX"],
       [T |-> "QTextFragment", index |-> "SBK_QTEXTFRAGMENT_IDX"],
       [T |-> "QTextBlock", index |-> "SBK_QTEXTBLOCK_IDX"],
       [T |-> "QTextBlock::iterator", index |-> "SBK_QTEXTBLOCK_ITERATOR_IDX"],
       [T |-> "QTextBlockUserData", index |-> "SBK_QTEXTBLOCKUSERDATA_IDX"],
       [T |-> "QTextObjectInterface", index |-> "SBK_QTEXTOBJECTINTERFACE_IDX"],
       [T |-> "QTextLine::Edge", index |-> "SBK_QTEXTLINE_EDGE_IDX"],
       [T |-> "QTextLine::CursorPosition", index |-> "SBK_QTEXTLINE_CURSORPOSITION_IDX"],
       [T |-> "QTextLine", index |-> "SBK_QTEXTLINE_IDX"],
       [T |-> "QTextInlineObject", index |-> "SBK_QTEXTINLINEOBJECT_IDX"],
       [T |-> "QTextCursor::MoveMode", index |-> "SBK_QTEXTCURSOR_MOVEMODE_IDX"],
       [T |-> "QTextCursor::MoveOperation", index |-> "SBK_QTEXTCURSOR_MOVEOPERATION_IDX"],
       [T |-> "QTextCursor::SelectionType", index |-> "SBK_QTEXTCURSOR_SELECTIONTYPE_IDX"],
       [T |-> "QTextCursor", index |-> "SBK_QTEXTCURSOR_IDX"],
       [T |-> "QFontDatabase::WritingSystem", index |-> "SBK_QFONTDATABASE_WRITINGSYSTEM_IDX"],
       [T |-> "QFontDatabase::SystemFont", index |-> "SBK_QFONTDATABASE_SYSTEMFONT_IDX"],
       [T |-> "QFontDatabase", index |-> "SBK_QFONTDATABASE_IDX"],
       [T |-> "QTextFormat::FormatType", index |-> "SBK_QTEXTFORMAT_FORMATTYPE_IDX"],
       [T |-> "QTextFormat::Property", index |-> "SBK_QTEXTFORMAT_PROPERTY_IDX"],
       [T |-> "QTextFormat::ObjectTypes", index |-> "SBK_QTEXTFORMAT_OBJECTTYPES_IDX"],
       [T |-> "QTextFormat::PageBreakFlag", index |-> "SBK_QTEXTFORMAT_PAGEBREAKFLAG_IDX"],
       [T |-> "QFlags<QTextFormat::PageBreakFlag>", index |-> "SBK_QFLAGS_QTEXTFORMAT_PAGEBREAKFLAG__IDX"],
       [T |-> "QTextFormat", index |-> "SBK_QTEXTFORMAT_IDX"],
       [T |-> "QTextListFormat::Style", index |-> "SBK_QTEXTLISTFORMAT_STYLE_IDX"],
       [T |-> "QTextListFormat", index |-> "SBK_QTEXTLISTFORMAT_IDX"],
       [T |-> "QTextBlockFormat::LineHeightTypes", index |-> "SBK_QTEXTBLOCKFORMAT_LINEHEIGHTTYPES_IDX"],
       [T |-> "QTextBlockFormat", index |-> "SBK_QTEXTBLOCKFORMAT_IDX"],
       [T |-> "QTextFrameFormat::Position", index |-> "SBK_QTEXTFRAMEFORMAT_POSITION_IDX"],
       [T |-> "QTextFrameFormat::BorderStyle", index |-> "SBK_QTEXTFRAMEFORMAT_BORDERSTYLE_IDX"],
       [T |-> "QTextFrameFormat", index |-> "SBK_QTEXTFRAMEFORMAT_IDX"],
       [T |-> "QTextTableFormat", index |-> "SBK_QTEXTTABLEFORMAT_IDX"],
       [T |-> "QTextLength::Type", index |-> "SBK_QTEXTLENGTH_TYPE_IDX"],
       [T |-> "QTextLength", index |-> "SBK_QTEXTLENGTH_IDX"],
       [T |-> "QPaintEngineState", index |-> "SBK_QPAINTENGINESTATE_IDX"],
       [T |-> "QPaintEngine::PaintEngineFeature", index |-> "SBK_QPAINTENGINE_PAINTENGINEFEATURE_IDX"],
       [T |-> "QFlags<QPaintEngine::PaintEngineFeature>", index |-> "SBK_QFLAGS_QPAINTENGINE_PAINTENGINEFEATURE__IDX"],
       [T |-> "QPaintEngine::DirtyFlag", index |-> "SBK_QPAINTENGINE_DIRTYFLAG_IDX"],
       [T |-> "QFlags<QPaintEngine::DirtyFlag>", index |-> "SBK_QFLAGS_QPAINTENGINE_DIRTYFLAG__IDX"],
       [T |-> "QPaintEngine::PolygonDrawMode", index |-> "SBK_QPAINTENGINE_POLYGONDRAWMODE_IDX"],
       [T |-> "QPaintEngine::Type", index |-> "SBK_QPAINTENGINE_TYPE_IDX"],
       [T |-> "QPaintEngine", index |-> "SBK_QPAINTENGINE_IDX"],
       [T |-> "QTextItem::RenderFlag", index |-> "SBK_QTEXTITEM_RENDERFLAG_IDX"],
       [T |-> "QFlags<QTextItem::RenderFlag>", index |-> "SBK_QFLAGS_QTEXTITEM_RENDERFLAG__IDX"],
       [T |-> "QTextItem", index |-> "SBK_QTEXTITEM_IDX"],
       [T |-> "QFontMetricsF", index |-> "SBK_QFONTMETRICSF_IDX"],
       [T |-> "QFontMetrics", index |-> "SBK_QFONTMETRICS_IDX"],
       [T |-> "QFontInfo", index |-> "SBK_QFONTINFO_IDX"],
       [T |-> "QPen", index |-> "SBK_QPEN_IDX"],
       [T |-> "QTextOption::TabType", index |-> "SBK_QTEXTOPTION_TABTYPE_IDX"],
       [T |-> "QTextOption::WrapMode", index |-> "SBK_QTEXTOPTION_WRAPMODE_IDX"],
       [T |-> "QTextOption::Flag", index |-> "SBK_QTEXTOPTION_FLAG_IDX"],
       [T |-> "QFlags<QTextOption::Flag>", index |-> "SBK_QFLAGS_QTEXTOPTION_FLAG__IDX"],
       [T |-> "QTextOption", index |-> "SBK_QTEXTOPTION_IDX"],
       [T |-> "QTextOption::Tab", index |-> "SBK_QTEXTOPTION_TAB_IDX"],
       [T |-> "QPageSize::PageSizeId", index |-> "SBK_QPAGESIZE_PAGESIZEID_IDX"],
       [T |-> "QPageSize::Unit", index |-> "SBK_QPAGESIZE_UNIT_IDX"],
       [T |-> "QPageSize::SizeMatchPolicy", index |-> "SBK_QPAGESIZE_SIZEMATCHPOLICY_IDX"],
       [T |-> "QPageSize", index |-> "SBK_QPAGESIZE_IDX"],
       [T |-> "QOpenGLFramebufferObject::Attachment", index |-> "SBK_QOPENGLFRAMEBUFFEROBJECT_ATTACHMENT_IDX"],
       [T |-> "QOpenGLFramebufferObject", index |-> "SBK_QOPENGLFRAMEBUFFEROBJECT_IDX"],
       [T |-> "QOpenGLBuffer::Type", index |-> "SBK_QOPENGLBUFFER_TYPE_IDX"],
       [T |-> "QOpenGLBuffer::UsagePattern", index |-> "SBK_QOPENGLBUFFER_USAGEPATTERN_IDX"],
       [T |-> "QOpenGLBuffer::Access", index |-> "SBK_QOPENGLBUFFER_ACCESS_IDX"],
       [T |-> "QOpenGLBuffer::RangeAccessFlag", index |-> "SBK_QOPENGLBUFFER_RANGEACCESSFLAG_IDX"],
       [T |-> "QFlags<QOpenGLBuffer::RangeAccessFlag>", index |-> "SBK_QFLAGS_QOPENGLBUFFER_RANGEACCESSFLAG__IDX"],
       [T |-> "QOpenGLBuffer", index |-> "SBK_QOPENGLBUFFER_IDX"],
       [T |-> "QMatrix4x4", index |-> "SBK_QMATRIX4X4_IDX"],
       [T |-> "QQuaternion", index |-> "SBK_QQUATERNION_IDX"],
       [T |-> "QVector4D", index |-> "SBK_QVECTOR4D_IDX"],
       [T |-> "QVector3D", index |-> "SBK_QVECTOR3D_IDX"],
       [T |-> "QPalette::ColorGroup", index |-> "SBK_QPALETTE_COLORGROUP_IDX"],
       [T |-> "QPalette::ColorRole", index |-> "SBK_QPALETTE_COLORROLE_IDX"],
       [T |-> "QPalette", index |-> "SBK_QPALETTE_IDX"],
       [T |-> "QSurface::SurfaceClass", index |-> "SBK_QSURFACE_SURFACECLASS_IDX"],
       [T |-> "QSurface::SurfaceType", index |-> "SBK_QSURFACE_SURFACETYPE_IDX"],
       [T |-> "QSurface", index |-> "SBK_QSURFACE_IDX"],
       [T |-> "QSurfaceFormat::FormatOption", index |-> "SBK_QSURFACEFORMAT_FORMATOPTION_IDX"],
       [T |-> "QFlags<QSurfaceFormat::FormatOption>", index |-> "SBK_QFLAGS_QSURFACEFORMAT_FORMATOPTION__IDX"],
       [T |-> "QSurfaceFormat::SwapBehavior", index |-> "SBK_QSURFACEFORMAT_SWAPBEHAVIOR_IDX"],
       [T |-> "QSurfaceFormat::RenderableType", index |-> "SBK_QSURFACEFORMAT_RENDERABLETYPE_IDX"],
       [T |-> "QSurfaceFormat::OpenGLContextProfile", index |-> "SBK_QSURFACEFORMAT_OPENGLCONTEXTPROFILE_IDX"],
       [T |-> "QSurfaceFormat", index |-> "SBK_QSURFACEFORMAT_IDX"],
       [T |-> "QCursor", index |-> "SBK_QCURSOR_IDX"],
       [T |-> "QStandardItem::ItemType", index |-> "SBK_QSTANDARDITEM_ITEMTYPE_IDX"],
       [T |-> "QStandardItem", index |-> "SBK_QSTANDARDITEM_IDX"],
       [T |-> "QFont::StyleHint", index |-> "SBK_QFONT_STYLEHINT_IDX"],
       [T |-> "QFont::StyleStrategy", index |-> "SBK_QFONT_STYLESTRATEGY_IDX"],
       [T |-> "QFont::HintingPreference", index |-> "SBK_QFONT_HINTINGPREFERENCE_IDX"],
       [T |-> "QFont::Weight", index |-> "SBK_QFONT_WEIGHT_IDX"],
       [T |-> "QFont::Style", index |-> "SBK_QFONT_STYLE_IDX"],
       [T |-> "QFont::Stretch", index |-> "SBK_QFONT_STRETCH_IDX"],
       [T |-> "QFont::Capitalization", index |-> "SBK_QFONT_CAPITALIZATION_IDX"],
       [T |-> "QFont::SpacingType", index |-> "SBK_QFONT_SPACINGTYPE_IDX"],
       [T |-> "QFont", index |-> "SBK_QFONT_IDX"],
       [T |-> "QTextCharFormat::VerticalAlignment", index |-> "SBK_QTEXTCHARFORMAT_VERTICALALIGNMENT_IDX"],
       [T |-> "QTextCharFormat::UnderlineStyle", index |-> "SBK_QTEXTCHARFORMAT_UNDERLINESTYLE_IDX"],
       [T |-> "QTextCharFormat::FontPropertiesInheritanceBehavior", index |-> "SBK_QTEXTCHARFORMAT_FONTPROPERTIESINHERITANCEBEHAVIOR_IDX"],
       [T |-> "QTextCharFormat", index |-> "SBK_QTEXTCHARFORMAT_IDX"],
       [T |-> "QTextTableCellFormat", index |-> "SBK_QTEXTTABLECELLFORMAT_IDX"],
       [T |-> "QTextImageFormat", index |-> "SBK_QTEXTIMAGEFORMAT_IDX"],
       [T |-> "QGradient::Type", index |-> "SBK_QGRADIENT_TYPE_IDX"],
       [T |-> "QGradient::Spread", index |-> "SBK_QGRADIENT_SPREAD_IDX"],
       [T |-> "QGradient::CoordinateMode", index |-> "SBK_QGRADIENT_COORDINATEMODE_IDX"],
       [T |-> "QGradient::InterpolationMode", index |-> "SBK_QGRADIENT_INTERPOLATIONMODE_IDX"],
       [T |-> "QGradient", index |-> "SBK_QGRADIENT_IDX"],
       [T |-> "QConicalGradient", index |-> "SBK_QCONICALGRADIENT_IDX"],
       [T |-> "QRadialGradient", index |-> "SBK_QRADIALGRADIENT_IDX"],
       [T |-> "QLinearGradient", index |-> "SBK_QLINEARGRADIENT_IDX"],
       [T |-> "QBrush", index |-> "SBK_QBRUSH_IDX"],
       [T |-> "QPixmapCache", index |-> "SBK_QPIXMAPCACHE_IDX"],
       [T |-> "QPixmapCache::Key", index |-> "SBK_QPIXMAPCACHE_KEY_IDX"],
       [T |-> "QPictureIO", index |-> "SBK_QPICTUREIO_IDX"],
       [T |-> "QImageIOHandler::ImageOption", index |-> "SBK_QIMAGEIOHANDLER_IMAGEOPTION_IDX"],
       [T |-> "QImageIOHandler::Transformation", index |-> "SBK_QIMAGEIOHANDLER_TRANSFORMATION_IDX"],
       [T |-> "QFlags<QImageIOHandler::Transformation>", index |-> "SBK_QFLAGS_QIMAGEIOHANDLER_TRANSFORMATION__IDX"],
       [T |-> "QImageIOHandler", index |-> "SBK_QIMAGEIOHANDLER_IDX"],
       [T |-> "QTransform::TransformationType", index |-> "SBK_QTRANSFORM_TRANSFORMATIONTYPE_IDX"],
       [T |-> "QTransform", index |-> "SBK_QTRANSFORM_IDX"],
       [T |-> "QStaticText::PerformanceHint", index |-> "SBK_QSTATICTEXT_PERFORMANCEHINT_IDX"],
       [T |-> "QStaticText", index |-> "SBK_QSTATICTEXT_IDX"],
       [T |-> "QRawFont::AntialiasingType", index |-> "SBK_QRAWFONT_ANTIALIASINGTYPE_IDX"],
       [T |-> "QRawFont::LayoutFlag", index |-> "SBK_QRAWFONT_LAYOUTFLAG_IDX"],
       [T |-> "QFlags<QRawFont::LayoutFlag>", index |-> "SBK_QFLAGS_QRAWFONT_LAYOUTFLAG__IDX"],
       [T |-> "QRawFont", index |-> "SBK_QRAWFONT_IDX"],
       [T |-> "QPainterPathStroker", index |-> "SBK_QPAINTERPATHSTROKER_IDX"],
       [T |-> "QMatrix", index |-> "SBK_QMATRIX_IDX"],
       [T |-> "QPainterPath::ElementType", index |-> "SBK_QPAINTERPATH_ELEMENTTYPE_IDX"],
       [T |-> "QPainterPath", index |-> "SBK_QPAINTERPATH_IDX"],
       [T |-> "QPainterPath::Element", index |-> "SBK_QPAINTERPATH_ELEMENT_IDX"],
       [T |-> "QPolygonF", index |-> "SBK_QPOLYGONF_IDX"],
       [T |-> "QPolygon", index |-> "SBK_QPOLYGON_IDX"],
       [T |-> "QPixelFormat::ColorModel", index |-> "SBK_QPIXELFORMAT_COLORMODEL_IDX"],
       [T |-> "QPixelFormat::AlphaUsage", index |-> "SBK_QPIXELFORMAT_ALPHAUSAGE_IDX"],
       [T |-> "QPixelFormat::AlphaPosition", index |-> "SBK_QPIXELFORMAT_ALPHAPOSITION_IDX"],
       [T |-> "QPixelFormat::AlphaPremultiplied", index |-> "SBK_QPIXELFORMAT_ALPHAPREMULTIPLIED_IDX"],
       [T |-> "QPixelFormat::TypeInterpretation", index |-> "SBK_QPIXELFORMAT_TYPEINTERPRETATION_IDX"],
       [T |-> "QPixelFormat::YUVLayout", index |-> "SBK_QPIXELFORMAT_YUVLAYOUT_IDX"],
       [T |-> "QPixelFormat::ByteOrder", index |-> "SBK_QPIXELFORMAT_BYTEORDER_IDX"],
       [T |-> "QPixelFormat", index |-> "SBK_QPIXELFORMAT_IDX"],
       [T |-> "QPaintDevice::PaintDeviceMetric", index |-> "SBK_QPAINTDEVICE_PAINTDEVICEMETRIC_IDX"],
       [T |-> "QPaintDevice", index |-> "SBK_QPAINTDEVICE_IDX"],
       [T |-> "QPagedPaintDevice::PageSize", index |-> "SBK_QPAGEDPAINTDEVICE_PAGESIZE_IDX"],
       [T |-> "QPagedPaintDevice", index |-> "SBK_QPAGEDPAINTDEVICE_IDX"],
       [T |-> "QPagedPaintDevice::Margins", index |-> "SBK_QPAGEDPAINTDEVICE_MARGINS_IDX"],
       [T |-> "QPicture", index |-> "SBK_QPICTURE_IDX"],
       [T |-> "QAccessibleEvent", index |-> "SBK_QACCESSIBLEEVENT_IDX"],
       [T |-> "QAccessibleInterface", index |-> "SBK_QACCESSIBLEINTERFACE_IDX"],
       [T |-> "QAccessible::Event", index |-> "SBK_QACCESSIBLE_EVENT_IDX"],
       [T |-> "QAccessible::Role", index |-> "SBK_QACCESSIBLE_ROLE_IDX"],
       [T |-> "QAccessible::Text", index |-> "SBK_QACCESSIBLE_TEXT_IDX"],
       [T |-> "QAccessible::RelationFlag", index |-> "SBK_QACCESSIBLE_RELATIONFLAG_IDX"],
       [T |-> "QAccessible::InterfaceType", index |-> "SBK_QACCESSIBLE_INTERFACETYPE_IDX"],
       [T |-> "QAccessible::TextBoundaryType", index |-> "SBK_QACCESSIBLE_TEXTBOUNDARYTYPE_IDX"],
       [T |-> "QAccessible", index |-> "SBK_QACCESSIBLE_IDX"],
       [T |-> "QAccessible::State", index |-> "SBK_QACCESSIBLE_STATE_IDX"],
       [T |-> "QTouchDevice::DeviceType", index |-> "SBK_QTOUCHDEVICE_DEVICETYPE_IDX"],
       [T |-> "QTouchDevice::CapabilityFlag", index |-> "SBK_QTOUCHDEVICE_CAPABILITYFLAG_IDX"],
       [T |-> "QFlags<QTouchDevice::CapabilityFlag>", index |-> "SBK_QFLAGS_QTOUCHDEVICE_CAPABILITYFLAG__IDX"],
       [T |-> "QTouchDevice", index |-> "SBK_QTOUCHDEVICE_IDX"],
       [T |-> "QVector2D", index |-> "SBK_QVECTOR2D_IDX"],
       [T |-> "QKeySequence::StandardKey", index |-> "SBK_QKEYSEQUENCE_STANDARDKEY_IDX"],
       [T |-> "QKeySequence::SequenceFormat", index |-> "SBK_QKEYSEQUENCE_SEQUENCEFORMAT_IDX"],
       [T |-> "QKeySequence::SequenceMatch", index |-> "SBK_QKEYSEQUENCE_SEQUENCEMATCH_IDX"],
       [T |-> "QKeySequence", index |-> "SBK_QKEYSEQUENCE_IDX"],
       [T |-> "QColor::Spec", index |-> "SBK_QCOLOR_SPEC_IDX"],
       [T |-> "QColor::NameFormat", index |-> "SBK_QCOLOR_NAMEFORMAT_IDX"],
       [T |-> "QColor", index |-> "SBK_QCOLOR_IDX"],
       [T |-> "QTextLayout::CursorMode", index |-> "SBK_QTEXTLAYOUT_CURSORMODE_IDX"],
       [T |-> "QTextLayout", index |-> "SBK_QTEXTLAYOUT_IDX"],
       [T |-> "QTextLayout::FormatRange", index |-> "SBK_QTEXTLAYOUT_FORMATRANGE_IDX"],
       [T |-> "QPixmap", index |-> "SBK_QPIXMAP_IDX"],
       [T |-> "QImage::InvertMode", index |-> "SBK_QIMAGE_INVERTMODE_IDX"],
       [T |-> "QImage::Format", index |-> "SBK_QIMAGE_FORMAT_IDX"],
       [T |-> "QImage", index |-> "SBK_QIMAGE_IDX"],
       [T |-> "QBitmap", index |-> "SBK_QBITMAP_IDX"],
       [T |-> "QIcon::Mode", index |-> "SBK_QICON_MODE_IDX"],
       [T |-> "QIcon::State", index |-> "SBK_QICON_STATE_IDX"],
       [T |-> "QIcon", index |-> "SBK_QICON_IDX"],
       [T |-> "QIconEngine::IconEngineHook", index |-> "SBK_QICONENGINE_ICONENGINEHOOK_IDX"],
       [T |-> "QIconEngine", index |-> "SBK_QICONENGINE_IDX"],
       [T |-> "QIconEngine::AvailableSizesArgument", index |-> "SBK_QICONENGINE_AVAILABLESIZESARGUMENT_IDX"],
       [T |-> "QPageLayout::Unit", index |-> "SBK_QPAGELAYOUT_UNIT_IDX"],
       [T |-> "QPageLayout::Orientation", index |-> "SBK_QPAGELAYOUT_ORIENTATION_IDX"],
       [T |-> "QPageLayout::Mode", index |-> "SBK_QPAGELAYOUT_MODE_IDX"],
       [T |-> "QPageLayout", index |-> "SBK_QPAGELAYOUT_IDX"],
       [T |-> "QPainter::RenderHint", index |-> "SBK_QPAINTER_RENDERHINT_IDX"],
       [T |-> "QFlags<QPainter::RenderHint>", index |-> "SBK_QFLAGS_QPAINTER_RENDERHINT__IDX"],
       [T |-> "QPainter::PixmapFragmentHint", index |-> "SBK_QPAINTER_PIXMAPFRAGMENTHINT_IDX"],
       [T |-> "QFlags<QPainter::PixmapFragmentHint>", index |-> "SBK_QFLAGS_QPAINTER_PIXMAPFRAGMENTHINT__IDX"],
       [T |-> "QPainter::CompositionMode", index |-> "SBK_QPAINTER_COMPOSITIONMODE_IDX"],
       [T |-> "QPainter", index |-> "SBK_QPAINTER_IDX"],
       [T |-> "QPainter::PixmapFragment", index |-> "SBK_QPAINTER_PIXMAPFRAGMENT_IDX"],
       [T |-> "QBackingStore", index |-> "SBK_QBACKINGSTORE_IDX"],
       [T |-> "QWindowStateChangeEvent", index |-> "SBK_QWINDOWSTATECHANGEEVENT_IDX"],
       [T |-> "QShortcutEvent", index |-> "SBK_QSHORTCUTEVENT_IDX"],
       [T |-> "QDropEvent", index |-> "SBK_QDROPEVENT_IDX"],
       [T |-> "QDragMoveEvent", index |-> "SBK_QDRAGMOVEEVENT_IDX"],
       [T |-> "QDragEnterEvent", index |-> "SBK_QDRAGENTEREVENT_IDX"],
       [T |-> "QInputMethodEvent::AttributeType", index |-> "SBK_QINPUTMETHODEVENT_ATTRIBUTETYPE_IDX"],
       [T |-> "QInputMethodEvent", index |-> "SBK_QINPUTMETHODEVENT_IDX"],
       [T |-> "QInputMethodEvent::Attribute", index |-> "SBK_QINPUTMETHODEVENT_ATTRIBUTE_IDX"],
       [T |-> "QCloseEvent", index |-> "SBK_QCLOSEEVENT_IDX"],
       [T |-> "QStatusTipEvent", index |-> "SBK_QSTATUSTIPEVENT_IDX"],
       [T |-> "QResizeEvent", index |-> "SBK_QRESIZEEVENT_IDX"],
       [T |-> "QHelpEvent", index |-> "SBK_QHELPEVENT_IDX"],
       [T |-> "QExposeEvent", index |-> "SBK_QEXPOSEEVENT_IDX"],
       [T |-> "QDragLeaveEvent", index |-> "SBK_QDRAGLEAVEEVENT_IDX"],
       [T |-> "QMoveEvent", index |-> "SBK_QMOVEEVENT_IDX"],
       [T |-> "QHideEvent", index |-> "SBK_QHIDEEVENT_IDX"],
       [T |-> "QShowEvent", index |-> "SBK_QSHOWEVENT_IDX"],
       [T |-> "QIconDragEvent", index |-> "SBK_QICONDRAGEVENT_IDX"],
       [T |-> "QEnterEvent", index |-> "SBK_QENTEREVENT_IDX"],
       [T |-> "QPaintEvent", index |-> "SBK_QPAINTEVENT_IDX"],
       [T |-> "QFocusEvent", index |-> "SBK_QFOCUSEVENT_IDX"],
       [T |-> "QInputEvent", index |-> "SBK_QINPUTEVENT_IDX"],
       [T |-> "QKeyEvent", index |-> "SBK_QKEYEVENT_IDX"],
       [T |-> "QTabletEvent::TabletDevice", index |-> "SBK_QTABLETEVENT_TABLETDEVICE_IDX"],
       [T |-> "QTabletEvent::PointerType", index |-> "SBK_QTABLETEVENT_POINTERTYPE_IDX"],
       [T |-> "QTabletEvent", index |-> "SBK_QTABLETEVENT_IDX"],
       [T |-> "QContextMenuEvent::Reason", index |-> "SBK_QCONTEXTMENUEVENT_REASON_IDX"],
       [T |-> "QContextMenuEvent", index |-> "SBK_QCONTEXTMENUEVENT_IDX"],
       [T |-> "QTouchEvent", index |-> "SBK_QTOUCHEVENT_IDX"],
       [T |-> "QTouchEvent::TouchPoint::InfoFlag", index |-> "SBK_QTOUCHEVENT_TOUCHPOINT_INFOFLAG_IDX"],
       [T |-> "QFlags<QTouchEvent::TouchPoint::InfoFlag>", index |-> "SBK_QFLAGS_QTOUCHEVENT_TOUCHPOINT_INFOFLAG__IDX"],
       [T |-> "QTouchEvent::TouchPoint", index |-> "SBK_QTOUCHEVENT_TOUCHPOINT_IDX"],
       [T |-> "QWheelEvent", index |-> "SBK_QWHEELEVENT_IDX"],
       [T |-> "QHoverEvent", index |-> "SBK_QHOVEREVENT_IDX"],
       [T |-> "QMouseEvent", index |-> "SBK_QMOUSEEVENT_IDX"],
       [T |-> "QToolBarChangeEvent", index |-> "SBK_QTOOLBARCHANGEEVENT_IDX"],
       [T |-> "QFileOpenEvent", index |-> "SBK_QFILEOPENEVENT_IDX"],
       [T |-> "QActionEvent", index |-> "SBK_QACTIONEVENT_IDX"],
       [T |-> "QWhatsThisClickedEvent", index |-> "SBK_QWHATSTHISCLICKEDEVENT_IDX"],
       [T |-> "QRegion::RegionType", index |-> "SBK_QREGION_REGIONTYPE_IDX"],
       [T |-> "QRegion", index |-> "SBK_QREGION_IDX"],
       [T |-> "QOpenGLContext::OpenGLModuleType", index |-> "SBK_QOPENGLCONTEXT_OPENGLMODULETYPE_IDX"],
       [T |-> "QOpenGLContext", index |-> "SBK_QOPENGLCONTEXT_IDX"],
       [T |-> "QSessionManager::RestartHint", index |-> "SBK_QSESSIONMANAGER_RESTARTHINT_IDX"],
       [T |-> "QSessionManager", index |-> "SBK_QSESSIONMANAGER_IDX"],
       [T |-> "QScreen", index |-> "SBK_QSCREEN_IDX"],
       [T |-> "QClipboard::Mode", index |-> "SBK_QCLIPBOARD_MODE_IDX"],
       [T |-> "QClipboard", index |-> "SBK_QCLIPBOARD_IDX"],
       [T |-> "QValidator::State", index |-> "SBK_QVALIDATOR_STATE_IDX"],
       [T |-> "QValidator", index |-> "SBK_QVALIDATOR_IDX"],
       [T |-> "QIntValidator", index |-> "SBK_QINTVALIDATOR_IDX"],
       [T |-> "QRegExpValidator", index |-> "SBK_QREGEXPVALIDATOR_IDX"],
       [T |-> "QDoubleValidator::Notation", index |-> "SBK_QDOUBLEVALIDATOR_NOTATION_IDX"],
       [T |-> "QDoubleValidator", index |-> "SBK_QDOUBLEVALIDATOR_IDX"],
       [T |-> "QDrag", index |-> "SBK_QDRAG_IDX"],
       [T |-> "QSyntaxHighlighter", index |-> "SBK_QSYNTAXHIGHLIGHTER_IDX"],
       [T |-> "QStyleHints", index |-> "SBK_QSTYLEHINTS_IDX"],
       [T |-> "QPyTextObject", index |-> "SBK_QPYTEXTOBJECT_IDX"],
       [T |-> "QOpenGLShader::ShaderTypeBit", index |-> "SBK_QOPENGLSHADER_SHADERTYPEBIT_IDX"],
       [T |-> "QFlags<QOpenGLShader::ShaderTypeBit>", index |-> "SBK_QFLAGS_QOPENGLSHADER_SHADERTYPEBIT__IDX"],
       [T |-> "QOpenGLShader", index |-> "SBK_QOPENGLSHADER_IDX"],
       [T |-> "QPdfWriter", index |-> "SBK_QPDFWRITER_IDX"],
       [T |-> "QStandardItemModel", index |-> "SBK_QSTANDARDITEMMODEL_IDX"],
       [T |-> "QGuiApplication", index |-> "SBK_QGUIAPPLICATION_IDX"],
       [T |-> "QTextObject", index |-> "SBK_QTEXTOBJECT_IDX"],
       [T |-> "QTextFrame", index |-> "SBK_QTEXTFRAME_IDX"],
       [T |-> "QTextTable", index |-> "SBK_QTEXTTABLE_IDX"],
       [T |-> "QTextFrame::iterator", index |-> "SBK_QTEXTFRAME_ITERATOR_IDX"],
       [T |-> "QTextBlockGroup", index |-> "SBK_QTEXTBLOCKGROUP_IDX"],
       [T |-> "QTextList", index |-> "SBK_QTEXTLIST_IDX"],
       [T |-> "QAbstractTextDocumentLayout", index |-> "SBK_QABSTRACTTEXTDOCUMENTLAYOUT_IDX"],
       [T |-> "QAbstractTextDocumentLayout::PaintContext", index |-> "SBK_QABSTRACTTEXTDOCUMENTLAYOUT_PAINTCONTEXT_IDX"],
       [T |-> "QAbstractTextDocumentLayout::Selection", index |-> "SBK_QABSTRACTTEXTDOCUMENTLAYOUT_SELECTION_IDX"],
       [T |-> "QWindow::Visibility", index |-> "SBK_QWINDOW_VISIBILITY_IDX"],
       [T |-> "QWindow::AncestorMode", index |-> "SBK_QWINDOW_ANCESTORMODE_IDX"],
       [T |-> "QWindow", index |-> "SBK_QWINDOW_IDX"],
       [T |-> "QPaintDeviceWindow", index |-> "SBK_QPAINTDEVICEWINDOW_IDX"],
       [T |-> "QRasterWindow", index |-> "SBK_QRASTERWINDOW_IDX"],
       [T |-> "QMovie::MovieState", index |-> "SBK_QMOVIE_MOVIESTATE_IDX"],
       [T |-> "QMovie::CacheMode", index |-> "SBK_QMOVIE_CACHEMODE_IDX"],
       [T |-> "QMovie", index |-> "SBK_QMOVIE_IDX"],
       [T |-> "QImageWriter::ImageWriterError", index |-> "SBK_QIMAGEWRITER_IMAGEWRITERERROR_IDX"],
       [T |-> "QImageWriter", index |-> "SBK_QIMAGEWRITER_IDX"],
       [T |-> "QImageReader::ImageReaderError", index |-> "SBK_QIMAGEREADER_IMAGEREADERERROR_IDX"],
       [T |-> "QImageReader", index |-> "SBK_QIMAGEREADER_IDX"],
       [T |-> "QTextDocumentWriter", index |-> "SBK_QTEXTDOCUMENTWRITER_IDX"],
       [T |-> "QTextDocumentFragment", index |-> "SBK_QTEXTDOCUMENTFRAGMENT_IDX"],
       [T |-> "QTextDocument::MetaInformation", index |-> "SBK_QTEXTDOCUMENT_METAINFORMATION_IDX"],
       [T |-> "QTextDocument::FindFlag", index |-> "SBK_QTEXTDOCUMENT_FINDFLAG_IDX"],
       [T |-> "QFlags<QTextDocument::FindFlag>", index |-> "SBK_QFLAGS_QTEXTDOCUMENT_FINDFLAG__IDX"],
       [T |-> "QTextDocument::ResourceType", index |-> "SBK_QTEXTDOCUMENT_RESOURCETYPE_IDX"],
       [T |-> "QTextDocument::Stacks", index |-> "SBK_QTEXTDOCUMENT_STACKS_IDX"],
       [T |-> "QTextDocument", index |-> "SBK_QTEXTDOCUMENT_IDX"] >>

\* what the preprocessor substitutes for each macro name of a list of
\* #define lines
MacroTable(defines) ==
    [ n \in { defines[i].name : i \in DOMAIN defines } |->
        defines[CHOOSE i \in DOMAIN defines : defines[i].name = n].value ]

TypeIndex == MacroTable(TypeIndices)

\* variant: two converter macros share each value
ConverterIndex_halved ==
    [ n \in DOMAIN MacroTable(ConverterIndices) |->
        MacroTable(ConverterIndices)[n] \div 2 ]

ConverterIndex == MacroTable(ConverterIndices)

\* the types T for which SbkType<T>() is specialised
SbkTypes == { SbkTypeSpecialisations[i].T : i \in DOMAIN SbkTypeSpecialisations }

\* the macro the specialisation for T writes between the brackets
IndexMacroOf ==
    [ T \in SbkTypes |->
        SbkTypeSpecialisations[CHOOSE i \in DOMAIN SbkTypeSpecialisations :
                                   SbkTypeSpecialisations[i].T = T].index ]

\* variant: the table is read one slot further
SbkType_nextSlot(T) == TypeIndex[IndexMacroOf[T]] + 1

\* variant: the index wraps around before the last slot
SbkType_wrapped(T) == TypeIndex[IndexMacroOf[T]] % (SBK_QtGui_IDX_COUNT - 1)

\* SbkType<T>(): return SbkPySide2_QtGuiTypes[SBK_..._IDX]; the slot of the
\* type table that the call reads
SbkType(T) == TypeIndex[IndexMacroOf[T]]

\* a call of SbkType<T>() for one of the specialised types
call_SbkType ==
    /\ \E T \in SbkTypes :
         /\ sbk_T' = T
         /\ sbk_index' = SbkType(T)
    /\ UNCHANGED <<cvt_name, cvt_index>>
    /\ UNCHANGED launcher

\* SbkPySide2_QtGuiTypeConverters[SBK_..._IDX]: the converter table is read
\* at one of the converter index macros
read_SbkPySide2_QtGuiTypeConverters ==
    /\ \E n \in DOMAIN ConverterIndex :
         /\ cvt_name' = n
         /\ cvt_index' = ConverterIndex[n]
    /\ UNCHANGED <<sbk_T, sbk_index>>
    /\ UNCHANGED launcher

\* the binding is used on its own: nothing has been looked up yet, and the
\* launcher's variables keep the start values of one run
SbkInit ==
    /\ Init
    /\ platform = "osx" /\ exe = Exe1
    /\ fs = [ n \in {} |-> "dir" ]
    /\ env0 = [ n \in {} |-> <<>> ]

SbkNext ==
    \/ call_SbkType
    \/ read_SbkPySide2_QtGuiTypeConverters

SbkSpec == SbkInit /\ [][SbkNext]_vars

TypeOK ==
    /\ platform \in {"win", "osx"}
    /\ term \in {"running", "exit", "abort"}
    /\ interp \in {"none", "initialized", "finalized"}
    /\ exitCode \in -1..MaxExitCode
    /\ res \in {-1, 0}
    /\ (term = "running") = (pc # "done")

(***************************************************************************)
(* Vocabulary of the properties.                                           *)
(***************************************************************************)
HasCall(c) == \E i \in DOMAIN calls : calls[i] = c

NumCalls(c) == Cardinality({ i \in DOMAIN calls : calls[i] = c })

\* a call a was made before a call b
Before(a, b) ==
    \E i \in DOMAIN calls, j \in DOMAIN calls :
        i < j /\ calls[i] = a /\ calls[j] = b

IsPrefix(p, q) == Len(p) <= Len(q) /\ SubSeq(q, 1, Len(p)) = p

\* the entries the Windows launcher looks for, next to the executable
BinPath == RemoveFileSpec(exe) \o L_bin
DllPath == RemoveFileSpec(exe) \o L_python27dll
SharedPath == RemoveFileSpec(exe) \o L_shared

(***************************************************************************)
(* C1.  Every run of either launcher that terminates does so with exit     *)
(* code 0 or 1: no other exit code and no abnormal termination.            *)
(* Refuted: a failed Py_Initialize and the runtime_error thrown by         *)
(* WstrToUtf8Str abort the process, and a SystemExit raised by the         *)
(* application leaves with the application's status.                       *)
(***************************************************************************)
C1_ExitCodeZeroOrOne ==
    pc = "done" => (term = "exit" /\ exitCode \in {0, 1})

(***************************************************************************)
(* C2.  Every run of either launcher that ends in failure (anything but    *)
(* exit code 0) has shown an error dialog before terminating.              *)
(* Refuted by the terminations of C1 and C7, none of which shows a dialog. *)
(***************************************************************************)
C2_FailureShowsDialog ==
    (pc = "done" /\ ~(term = "exit" /\ exitCode = 0)) => dialogs # <<>>

(***************************************************************************)
(* C3.  Windows: when the bin subdirectory of the executable's directory   *)
(* does not exist, the environment is never modified and the interpreter   *)
(* never initialised, and the run ends with exactly one alert and exit     *)
(* code 1; once the directory test was reached the alert is the "bin       *)
(* directory seems to be missing" one.                                     *)
(***************************************************************************)
C3_BinMissingAlertExit1 ==
    (platform = "win" /\ BinPath \notin DOMAIN fs) =>
        /\ env = env0
        /\ interp = "none" /\ ~HasCall("Py_Initialize")
        /\ pc = "done" =>
             /\ term = "exit" /\ exitCode = 1
             /\ Len(dialogs) = 1
             /\ HasCall("_wstat") =>
                  dialogs = <<"The 'bin' directory seems to be missing.">>

C3_Witness ==
    /\ platform = "win" /\ BinPath \notin DOMAIN fs
    /\ pc = "done" /\ exitCode = 1
    /\ dialogs = <<"The 'bin' directory seems to be missing.">>

(***************************************************************************)
(* C4.  Windows: when python27.dll is missing from the executable's        *)
(* directory, the interpreter is never initialised and no command string   *)
(* is run, and the run ends with exactly one alert and exit code 1; once   *)
(* the test of the library was reached the alert is the "python27.dll      *)
(* seems to be missing" one.                                               *)
(***************************************************************************)
C4_DllMissingAlertExit1 ==
    (platform = "win" /\ DllPath \notin DOMAIN fs) =>
        /\ interp = "none" /\ ~HasCall("Py_Initialize")
        /\ passed = <<>> /\ ~HasCall("PyRun_SimpleString")
        /\ pc = "done" =>
             /\ term = "exit" /\ exitCode = 1
             /\ Len(dialogs) = 1
             /\ NumCalls("_wstat") = 2 =>
                  dialogs = <<"The 'python27.dll' seems to be missing.">>

C4_Witness ==
    /\ platform = "win" /\ DllPath \notin DOMAIN fs
    /\ pc = "done" /\ exitCode = 1
    /\ dialogs = <<"The 'python27.dll' seems to be missing.">>

(***************************************************************************)
(* C5.  Windows: when PATH is not set, so that the size query reports 0,   *)
(* nothing is allocated, the environment is not modified and the           *)
(* interpreter is not initialised, and the run ends with exactly one alert *)
(* and exit code 1; once the query was made the alert is the "could not    *)
(* get the PATH environment" one.                                          *)
(***************************************************************************)
C5_PathLookupFailsAlertExit1 ==
    (platform = "win" /\ L_PATH \notin DOMAIN env0) =>
        /\ ~HasCall("malloc") /\ pathvar.ptr = "uninit"
        /\ env = env0
        /\ interp = "none" /\ ~HasCall("Py_Initialize")
        /\ HasCall("_wgetenv_s") =>
             /\ envsize = 0
             /\ pc = "done"
             /\ dialogs = <<"Could not get the PATH environment.">>
        /\ pc = "done" =>
             /\ term = "exit" /\ exitCode = 1
             /\ Len(dialogs) = 1

C5_Witness ==
    /\ platform = "win" /\ L_PATH \notin DOMAIN env0
    /\ HasCall("_wgetenv_s") /\ envsize = 0
    /\ pc = "done" /\ exitCode = 1
    /\ dialogs = <<"Could not get the PATH environment.">>

(***************************************************************************)
(* C6.  Windows: when the allocation of the buffer for the PATH value      *)
(* fails (malloc returns NULL), the launcher shows the "could not allocate *)
(* memory" alert and exits with code 1, with the environment unmodified    *)
(* and the interpreter not initialised.                                    *)
(***************************************************************************)
C6_AllocFailsAlertExit1 ==
    pathvar.ptr = "NULL" =>
        /\ pc = "done" /\ term = "exit" /\ exitCode = 1
        /\ dialogs = <<"Could not allocate memory.">>
        /\ env = env0
        /\ interp = "none" /\ ~HasCall("Py_Initialize")

C6_Witness ==
    /\ platform = "win" /\ pathvar.ptr = "NULL"
    /\ pc = "done" /\ exitCode = 1
    /\ dialogs = <<"Could not allocate memory.">>

(***************************************************************************)
(* C7.  Either launcher: when the initialisation of the interpreter fails, *)
(* the launcher shows an alert and terminates with exit code 1, and the    *)
(* command string is not run.                                              *)
(* Refuted: neither main tests the initialisation; a failing Py_Initialize *)
(* ends the process in the interpreter's fatal error, with no alert.       *)
(***************************************************************************)
C7_InitFailureAlertExit1 ==
    (pc = "done" /\ HasCall("Py_FatalError")) =>
        /\ dialogs # <<>>
        /\ term = "exit" /\ exitCode = 1
        /\ passed = <<>>

(***************************************************************************)
(* C8.  Windows: in every run that reaches the initialisation of the       *)
(* interpreter, PATH equals the bin directory, a semicolon and the value   *)
(* PATH had at start.                                                      *)
(* Refuted: _wputenv_s is handed the new value as the variable's name and  *)
(* L"PATH" as its value, so PATH keeps its old value.                      *)
(***************************************************************************)
C8_PathPrepended ==
    (platform = "win" /\ HasCall("Py_Initialize")) =>
        /\ L_PATH \in DOMAIN env
        /\ env[L_PATH] = BinPath \o L_semicolon \o env0[L_PATH]

(***************************************************************************)
(* C9.  Windows: in every run that reaches the initialisation of the       *)
(* interpreter, PYTHONPATH equals the shared subdirectory of the           *)
(* executable's directory.                                                 *)
(* Refuted: the arguments of _wputenv_s are exchanged here too, so         *)
(* PYTHONPATH is not defined by the launcher.                              *)
(***************************************************************************)
C9_PythonPathIsShared ==
    (platform = "win" /\ HasCall("Py_Initialize")) =>
        /\ L_PYTHONPATH \in DOMAIN env
        /\ env[L_PYTHONPATH] = SharedPath

WinCallsToRun ==
    << "GetModuleFileNameW", "PathRemoveFileSpecW", "_wstat", "_wgetenv_s",
       "malloc", "_wgetenv_s", "_wputenv_s", "_wstat", "_wputenv_s",
       "Py_SetProgramName", "PyEval_InitThreads", "Py_Initialize",
       "PySys_SetArgv", "WstrToUtf8Str", "PyRun_SimpleString" >>

OsxCallsToRun ==
    << "Py_SetProgramName", "PyEval_InitThreads", "Py_Initialize",
       "PySys_SetArgv", "PyRun_SimpleString" >>

ReportCalls ==
    { <<"Py_Finalize", "exit">>,
      <<"Py_Exit", "Py_Finalize", "exit">>,
      <<"Py_Finalize", "MessageBox", "exit">>,
      <<"Py_Finalize", "CFUserNotificationDisplayAlert", "exit">> }

FinalCalls ==
    ReportCalls \cup
    { <<"MessageBox", "exit">>,
      <<"Py_FatalError", "abort">>,
      <<"throw", "abort">> }

S_handoff == SubSeq(L_cmd_tail, 3, Len(L_cmd_tail))

Contains(str, t) ==
    \E i \in 1..(Len(str) - Len(t) + 1) : SubSeq(str, i, i + Len(t) - 1) = t

\* the Windows launcher has passed its seven set-up tests
SetupPassed == platform = "win" => HasCall("Py_SetProgramName")

(***************************************************************************)
(* C12.  A run that passes every set-up check hands off exactly once: one  *)
(* command string, which imports bookmarks and calls bookmarks.exec_(), is *)
(* passed to the initialised interpreter; a run in which a set-up check    *)
(* failed never runs a string.                                             *)
(* Refuted on Windows: when the size query of WstrToUtf8Str fails the      *)
(* empty string is run instead, and when the conversion fails the          *)
(* exception ends the run before any hand-off.                             *)
(***************************************************************************)
C12_HandsOffOnce ==
    /\ (pc = "done" /\ SetupPassed /\ ~HasCall("Py_FatalError")) =>
          /\ Len(passed) = 1
          /\ Contains(passed[1], S_handoff)
          /\ Before("Py_Initialize", "PyRun_SimpleString")
    /\ ~SetupPassed => passed = <<>>

(***************************************************************************)
(* C13.  As claimed: in the Windows launcher, whenever the bin directory   *)
(* and python27.dll exist, the run ends with exit code 0.                  *)
(* Refuted: the other set-up steps and the command string can fail with    *)
(* the files present.                                                      *)
(***************************************************************************)
C13_FilesPresentExit0 ==
    ( /\ platform = "win" /\ pc = "done"
      /\ BinPath \in DOMAIN fs /\ fs[BinPath] = "dir"
      /\ DllPath \in DOMAIN fs )
    => (term = "exit" /\ exitCode = 0)

(***************************************************************************)
(* C13, amended.  In the Windows launcher, whenever the bin directory and  *)
(* python27.dll exist and the run gets as far as PyRun_SimpleString and    *)
(* that call returns a result other than -1, the run ends with exit code   *)
(* 0; and a run ends with exit code 0 only if bin is a directory and       *)
(* python27.dll exists.                                                    *)
(***************************************************************************)
C13_Exit0WhenStringReturns ==
    platform = "win" =>
        /\ ( /\ pc = "done"
             /\ BinPath \in DOMAIN fs /\ fs[BinPath] = "dir"
             /\ DllPath \in DOMAIN fs
             /\ HasCall("PyRun_SimpleString") /\ ~HasCall("Py_Exit")
             /\ res # -1 )
           => (term = "exit" /\ exitCode = 0 /\ dialogs = <<>>)
        /\ (term = "exit" /\ exitCode = 0) =>
             /\ BinPath \in DOMAIN fs /\ fs[BinPath] = "dir"
             /\ DllPath \in DOMAIN fs

C13_Witness ==
    /\ platform = "win" /\ pc = "done"
    /\ HasCall("PyRun_SimpleString") /\ ~HasCall("Py_Exit") /\ res = 0
    /\ passed # <<>> /\ passed[1] # <<>>
    /\ term = "exit" /\ exitCode = 0

(***************************************************************************)
(* C14.  Every run of either launcher eventually terminates: main has no   *)
(* loop, and from every state the end of the run is reached as long as     *)
(* each statement is executed in turn.                                     *)
(***************************************************************************)
C14_Terminates == <>(pc = "done")

C14_Witness ==
    /\ platform = "osx" /\ pc = "done" /\ term = "exit"
    /\ dialogs = <<"An internal Python error occured.">>
    /\ Len(calls) = Len(OsxCallsToRun) + 3

(***************************************************************************)
(* C15.  Either launcher: once the command string has been run, the        *)
(* process exits with code 1 after the "internal Python error" dialog if   *)
(* and only if PyRun_SimpleString returned -1, and with code 0 and no      *)
(* dialog for every other result.                                          *)
(* Refuted: a SystemExit raised while the string runs ends the process     *)
(* inside the call with the status it carries and no dialog.               *)
(***************************************************************************)
C15_ExitCodeFromResult ==
    (pc = "done" /\ passed # <<>>) =>
        /\ (res = -1) <=>
             (exitCode = 1 /\ dialogs = <<"An internal Python error occured.">>)
        /\ (res # -1) => (term = "exit" /\ exitCode = 0 /\ dialogs = <<>>)

\* a finished run of the Windows launcher that did not pass its set-up tests
SetupFailed ==
    platform = "win" /\ pc = "done" /\ ~HasCall("Py_SetProgramName")

\* the first set-up test, in the order of main, that fails in this run: its
\* alert and the number of calls made up to it
EarliestFailure ==
    IF path = <<>>
    THEN [text |-> "GetModuleFileNameW returned a bogus value.", k |-> 1]
    ELSE IF path = exe
    THEN [text |-> "PathRemoveFileSpecW returned a bogus value.", k |-> 2]
    ELSE IF BinPath \notin DOMAIN fs
    THEN [text |-> "The 'bin' directory seems to be missing.", k |-> 3]
    ELSE IF fs[BinPath] # "dir"
    THEN [text |-> "The 'bin' is not a valid directory.", k |-> 3]
    ELSE IF L_PATH \notin DOMAIN env0
    THEN [text |-> "Could not get the PATH environment.", k |-> 4]
    ELSE IF pathvar.ptr = "NULL"
    THEN [text |-> "Could not allocate memory.", k |-> 5]
    ELSE [text |-> "The 'python27.dll' seems to be missing.", k |-> 8]

(***************************************************************************)
(* C16.  Windows: the set-up tests are made in the order module path,      *)
(* file-spec removal, bin exists, bin is a directory, PATH lookup,         *)
(* allocation, python27.dll exists; a run that fails them shows exactly    *)
(* one dialog, that of the earliest failing test, whatever later tests     *)
(* would fail too, and makes no call after it but exit(1).                 *)
(***************************************************************************)
C16_EarliestFailureOnly ==
    SetupFailed =>
        /\ dialogs = <<EarliestFailure.text>>
        /\ calls = SubSeq(WinCallsToRun, 1, EarliestFailure.k) \o <<"MessageBox", "exit">>
        /\ term = "exit" /\ exitCode = 1
        /\ EarliestFailure.k = 8 => DllPath \notin DOMAIN fs

C16_Witness ==
    /\ SetupFailed
    /\ BinPath \notin DOMAIN fs
    /\ L_PATH \notin DOMAIN env0
    /\ DllPath \notin DOMAIN fs
    /\ HasCall("_wstat")
    /\ dialogs = <<"The 'bin' directory seems to be missing.">>

(***************************************************************************)
(* C17.  Windows: when an entry named bin exists in the executable's       *)
(* directory but is not a directory, the environment is never modified     *)
(* and the interpreter never initialised, and the run ends with one alert  *)
(* and exit code 1; once the directory test was reached the alert is the   *)
(* "not a valid directory" one.                                            *)
(***************************************************************************)
C17_BinNotDirAlertExit1 ==
    (platform = "win" /\ BinPath \in DOMAIN fs /\ fs[BinPath] # "dir") =>
        /\ env = env0 /\ ~HasCall("_wputenv_s")
        /\ interp = "none" /\ ~HasCall("Py_Initialize")
        /\ pc = "done" =>
             /\ term = "exit" /\ exitCode = 1
             /\ Len(dialogs) = 1
             /\ HasCall("_wstat") =>
                  dialogs = <<"The 'bin' is not a valid directory.">>

C17_Witness ==
    /\ platform = "win" /\ BinPath \in DOMAIN fs /\ fs[BinPath] = "file"
    /\ info = "file"
    /\ pc = "done" /\ exitCode = 1
    /\ dialogs = <<"The 'bin' is not a valid directory.">>

(***************************************************************************)
(* C18.  Windows: when GetModuleFileNameW returns 0 (path is left          *)
(* unfilled) or PathRemoveFileSpecW returns 0 (path still holds the file   *)
(* name), the launcher shows the alert of that call and exits with code 1, *)
(* having made no directory test, no environment access and no             *)
(* interpreter call.                                                       *)
(***************************************************************************)
C18_PathResolutionFailsAlertExit1 ==
    /\ (platform = "win" /\ HasCall("GetModuleFileNameW") /\ path = <<>>) =>
          /\ pc = "done" /\ term = "exit" /\ exitCode = 1
          /\ dialogs = <<"GetModuleFileNameW returned a bogus value.">>
          /\ calls = <<"GetModuleFileNameW", "MessageBox", "exit">>
          /\ env = env0 /\ interp = "none"
    /\ (platform = "win" /\ HasCall("PathRemoveFileSpecW") /\ path = exe) =>
          /\ pc = "done" /\ term = "exit" /\ exitCode = 1
          /\ dialogs = <<"PathRemoveFileSpecW returned a bogus value.">>
          /\ calls = <<"GetModuleFileNameW", "PathRemoveFileSpecW", "MessageBox", "exit">>
          /\ env = env0 /\ interp = "none"

C18_Witness ==
    /\ platform = "win" /\ HasCall("PathRemoveFileSpecW") /\ path = exe
    /\ pc = "done" /\ exitCode = 1
    /\ bin_dir = <<>> /\ envsize = 0

(***************************************************************************)
(* C19.  Either launcher: a run that initialises the interpreter           *)
(* finalises it exactly once before the process terminates, never          *)
(* finalises without having initialised, and on the failure path           *)
(* finalises before the error dialog is shown.                             *)
(* Refuted on Windows: the exception out of WstrToUtf8Str ends the process *)
(* after Py_Initialize and without Py_Finalize.                            *)
(***************************************************************************)
C19_FinalisedOnce ==
    /\ (pc = "done" /\ interp # "none") =>
          (interp = "finalized" /\ NumCalls("Py_Finalize") = 1)
    /\ HasCall("Py_Finalize") =>
          (NumCalls("Py_Finalize") = 1 /\ Before("Py_Initialize", "Py_Finalize"))
    /\ HasCall("MessageBox") /\ HasCall("Py_Initialize") =>
          Before("Py_Finalize", "MessageBox")
    /\ HasCall("CFUserNotificationDisplayAlert") =>
          Before("Py_Finalize", "CFUserNotificationDisplayAlert")

C21_ExitZeroOnlyAfterCompleteCommand ==
    (platform = "win" /\ pc = "done" /\ term = "exit" /\ exitCode = 0) =>
        /\ passed = <<Utf8(wcmd)>>
        /\ Contains(passed[1], S_handoff)

(***************************************************************************)
(* C22.  As claimed: WstrToUtf8Str returns the empty string if and only if *)
(* its input is empty; for a non-empty input it returns the non-empty      *)
(* conversion or raises.  Stated on the call main makes: when the call     *)
(* has returned, cmd is empty exactly when wcmd is, and otherwise cmd is   *)
(* the UTF-8 conversion of wcmd.  Refuted by a failed size query, after    *)
(* which the function returns the empty string without raising.            *)
(***************************************************************************)
C22_EmptyOnlyForEmptyInput ==
    (platform = "win" /\ pc = "PyRun_SimpleString") =>
        /\ (cmd = <<>>) <=> (wcmd = <<>>)
        /\ cmd = Utf8(wcmd)

(***************************************************************************)
(* C23.  As claimed: when the Windows launcher passes the command string,  *)
(* the value the string assigns to os.environ['PATH'] (modified_path) is   *)
(* the value of the process environment variable PATH, and the directory   *)
(* the string inserts into sys.path (path + "\shared") is the value of the *)
(* process environment variable PYTHONPATH.  Refuted by every run that     *)
(* reaches the hand-off: both _wputenv_s calls have their arguments        *)
(* exchanged, so PATH keeps its old value and PYTHONPATH is not set.       *)
(***************************************************************************)
C23_CommandAgreesWithEnvironment ==
    (platform = "win" /\ passed # <<>>) =>
        /\ L_PATH \in DOMAIN env
        /\ env[L_PATH] = modified_path
        /\ L_PYTHONPATH \in DOMAIN env
        /\ env[L_PYTHONPATH] = path \o L_shared

\* the calls of a launcher from Py_SetProgramName on, as the events a user
\* of the process can observe: the conversion of the command string and the
\* interpreter's internal Py_Exit are not events, and the two dialog calls
\* are the same event
ObservableCall(c) == c \notin {"WstrToUtf8Str", "Py_Exit"}

Event(c) ==
    IF c \in {"MessageBox", "CFUserNotificationDisplayAlert"} THEN "dialog" ELSE c

EventsFromSetup ==
    LET first == CHOOSE i \in DOMAIN calls :
                     /\ calls[i] = "Py_SetProgramName"
                     /\ \A j \in 1..(i - 1) : calls[j] # "Py_SetProgramName"
        tail  == SelectSeq(SubSeq(calls, first, Len(calls)), ObservableCall)
    IN  [ i \in DOMAIN tail |-> Event(tail[i]) ]

\* the result of running the command string in a finished run
RunResult ==
    IF HasCall("Py_Exit") THEN [kind |-> "Py_Exit", v |-> exitCode]
    ELSE [kind |-> "return", v |-> res]

\* what either launcher does for a result, whatever the platform
EventsFor(o) ==
    << "Py_SetProgramName", "PyEval_InitThreads", "Py_Initialize",
       "PySys_SetArgv", "PyRun_SimpleString", "Py_Finalize" >>
    \o (IF o.kind = "return" /\ o.v = -1 THEN <<"dialog">> ELSE <<>>)
    \o <<"exit">>

ExitCodeFor(o) ==
    IF o.kind = "Py_Exit" THEN o.v ELSE IF o.v = -1 THEN 1 ELSE 0

(***************************************************************************)
(* C24.  From interpreter set-up onwards the two launchers are equivalent: *)
(* in a finished run of either launcher that ran the command string, the   *)
(* observable events from Py_SetProgramName on, the dialog shown and the   *)
(* exit code are those that the result of running the string determines,   *)
(* the same for both platforms: set program name, init threads,            *)
(* initialise, set argv, run string, finalise, the error dialog exactly    *)
(* when the string returned -1, exit; the exit code is 1 when it returned  *)
(* -1, 0 when it returned anything else, and the SystemExit status when    *)
(* the interpreter left the process.                                       *)
(***************************************************************************)
C24_SameEventsForSameResult ==
    (pc = "done" /\ passed # <<>>) =>
        /\ RunResult \in PyRun_SimpleString(passed[1])
        /\ EventsFromSetup = EventsFor(RunResult)
        /\ term = "exit" /\ exitCode = ExitCodeFor(RunResult)
        /\ dialogs = IF RunResult.kind = "return" /\ RunResult.v = -1
                     THEN <<"An internal Python error occured.">> ELSE <<>>

C24_Witness ==
    /\ platform = "win" /\ pc = "done" /\ passed # <<>>
    /\ RunResult = [kind |-> "return", v |-> -1]
    /\ EventsFromSetup[7] = "dialog" /\ exitCode = 1

\* every specialisation indexes the type table with a macro that is defined
SpecialisationsUseDefinedIndices ==
    \A T \in SbkTypes : IndexMacroOf[T] \in DOMAIN TypeIndex

\* every type index macro is a valid index of the type table
TypeIndicesWithinTable ==
    \A n \in DOMAIN TypeIndex : TypeIndex[n] \in 0..(SBK_QtGui_IDX_COUNT - 1)

(***************************************************************************)
(* C25.  Every SbkType<T>() specialisation reads SbkPySide2_QtGuiTypes at  *)
(* an index that is one of the defined type index constants, and every     *)
(* type index constant is at least 0 and less than SBK_QtGui_IDX_COUNT     *)
(* (295): a call of SbkType<T>() never reads past the table.               *)
(***************************************************************************)
C25_LookupsWithinTable ==
    /\ SBK_QtGui_IDX_COUNT = 295
    /\ SpecialisationsUseDefinedIndices
    /\ TypeIndicesWithinTable
    /\ sbk_T # "none" =>
         /\ \E n \in DOMAIN TypeIndex : TypeIndex[n] = sbk_index
         /\ sbk_index >= 0 /\ sbk_index < SBK_QtGui_IDX_COUNT

C25_Witness ==
    /\ sbk_T \in SbkTypes
    /\ sbk_index = SBK_QtGui_IDX_COUNT - 1

\* the two pairs of type index macros that name one slot
TypeIndexAliases ==
    { {"SBK_QPOLYGONF_IDX", "SBK_QVECTOR_QPOINTF_IDX"},
      {"SBK_QPOLYGON_IDX", "SBK_QVECTOR_QPOINT_IDX"} }

\* the type index macros take every value of 0..SBK_QtGui_IDX_COUNT-1
EveryTypeSlotUsed ==
    { TypeIndex[n] : n \in DOMAIN TypeIndex } = 0..(SBK_QtGui_IDX_COUNT - 1)

\* two distinct type index macros have the same value only in an alias pair
OnlyAliasesShareATypeIndex ==
    \A m \in DOMAIN TypeIndex : \A n \in DOMAIN TypeIndex :
        (m # n /\ TypeIndex[m] = TypeIndex[n]) => {m, n} \in TypeIndexAliases

(***************************************************************************)
(* C26.  The type index constants take every value of                      *)
(* 0..SBK_QtGui_IDX_COUNT-1, two distinct constants have the same value    *)
(* only for the alias pairs SBK_QPOLYGONF_IDX / SBK_QVECTOR_QPOINTF_IDX    *)
(* and SBK_QPOLYGON_IDX / SBK_QVECTOR_QPOINT_IDX, and the slot a call of   *)
(* SbkType<T>() has read is the slot of no specialisation for another      *)
(* type.                                                                   *)
(***************************************************************************)
C26_EverySlotOneType ==
    /\ EveryTypeSlotUsed
    /\ OnlyAliasesShareATypeIndex
    /\ sbk_T # "none" =>
         \A T \in SbkTypes \ {sbk_T} : SbkType(T) # sbk_index

C26_Witness ==
    /\ sbk_T = "QPolygonF"
    /\ sbk_index = TypeIndex["SBK_QVECTOR_QPOINTF_IDX"]

\* the converter index macros are pairwise distinct
ConverterIndicesDistinct ==
    \A m \in DOMAIN ConverterIndex : \A n \in DOMAIN ConverterIndex :
        m # n => ConverterIndex[m] # ConverterIndex[n]

\* the converter index macros take exactly the values of the table's slots
ConverterIndicesFillTable ==
    { ConverterIndex[n] : n \in DOMAIN ConverterIndex }
        = 0..(SBK_QtGui_CONVERTERS_IDX_COUNT - 1)

(***************************************************************************)
(* C27.  The converter index constants are pairwise distinct and are       *)
(* exactly the values 0..SBK_QtGui_CONVERTERS_IDX_COUNT-1 (0..45), each    *)
(* used by one constant, so a read of SbkPySide2_QtGuiTypeConverters at a  *)
(* converter index is a read of a slot of the table, and of a slot that no *)
(* other constant names.                                                   *)
(***************************************************************************)
C27_ConverterIndicesExact ==
    /\ SBK_QtGui_CONVERTERS_IDX_COUNT = 46
    /\ ConverterIndicesDistinct
    /\ ConverterIndicesFillTable
    /\ cvt_name # "none" =>
         /\ cvt_index \in 0..(SBK_QtGui_CONVERTERS_IDX_COUNT - 1)
         /\ \A n \in DOMAIN ConverterIndex \ {cvt_name} :
                ConverterIndex[n] # cvt_index

C27_Witness ==
    /\ cvt_name = "SBK_QTGUI_QMAP_QSTRING_QVARIANT_IDX"
    /\ cvt_index = SBK_QtGui_CONVERTERS_IDX_COUNT - 1

=============================================================================
